---- MODULE Spec2Model ----
(***************************************************************************)
(* State-machine model of the Script-Trimmer pipeline.                     *)
(*                                                                         *)
(*   SpecSeg    transcribe_segments.create_segment_json and the two        *)
(*              classifier wrappers it calls (analyse_topic_gpt,           *)
(*              detect_speaker_student_interactions, _validate_timestamp). *)
(*   SpecChunk  modal_app.chunk_audio (the same loop as main.chunk_audio   *)
(*              and script_trimmer.chunk_audio_file).                      *)
(*   SpecJob    modal_app.process_video_background with                    *)
(*              send_progress_update.                                      *)
(*                                                                         *)
(* Text is modelled as a sequence of one-character strings, so that        *)
(* str.split, int() and the f-string formats are computed, not assumed.    *)
(* Times are whole seconds, as in the MM:SS timestamps of the code.        *)
(***************************************************************************)
EXTENDS Integers, Sequences, FiniteSets, TLC

VARIABLES
    \* ---- create_segment_json ----
    audio_files,            \* its argument: the list transcribe_audio_segments returned
    file_idx,               \* position of the for loop over audio_files (1-based)
    segment_json,           \* the topic entries appended so far
    interaction_segments,   \* the interaction entries appended so far
    prev_topics,            \* the previous-topics context of the next topic call
    gpt_log,                \* the classifier answers given so far, one record per analysed file
    seg_result,             \* the returned list all_segments, <<>> until the return
    seg_pc,                 \* "loop" | "returned"
    \* ---- chunk_audio ----
    total_duration,         \* len(audio), milliseconds
    chunk_duration_minutes, \* the argument chunk_duration_minutes
    range_pos,              \* the loop variable start_time of range(0, total_duration, chunk_duration_ms)
    chunk_files,            \* the chunks exported so far
    chunk_pc,               \* "loop" | "returned"
    \* ---- process_video_background ----
    pc,                     \* position of the run
    job_url,                \* the argument s3_url
    checkpoint_file,        \* contents of processing_checkpoint.json
    progress_queue,         \* the items put on the Modal queue, oldest first
    put_errors,             \* updates whose queue put raised (logged and dropped)
    all_segments,           \* the local all_segments of the run
    video_path,             \* the local video_path of the run
    returncode,             \* result.returncode of the ffmpeg run
    job_chunk_files,        \* the local chunk_files of the run
    segments_json_file,     \* whether segments.json exists in the working directory
    \* ---- create_video_segments ----
    cut_pc,                 \* "start" | "regular" | "interaction" | "summary" | "returned" | "raised"
    segments_file,          \* segments.json: whether it exists and the list it holds
    video_arg,              \* the argument video_path
    ORIGINAL_VIDEO,         \* the module global ORIGINAL_VIDEO
    regular_segments,       \* the entries whose segment_type is not "interaction"
    cut_interactions,       \* the local interaction_segments
    loop_i,                 \* the enumerate index i of the running loop (1-based)
    cut_log,                \* one record per loop iteration entered: skipped, cut, or raising
    successful_extractions,
    failed_extractions,
    interaction_extractions,
    interaction_failures,
    cut_result,             \* the return value, or the exception that left the function
    \* ---- process_youtube_video and download_youtube_video ----
    yt_pc,                  \* position of the call
    youtube_url,            \* the argument youtube_url
    yt_segments_json,       \* segments.json: whether it exists and the list it holds
    strategy_i,             \* the enumerate index i of the loop over strategies (1-based)
    strategy_log,           \* one record per strategy invoked, in order
    download_result,        \* what download_youtube_video returned (None before)
    download_logged,        \* the exception text logged by its outer handler, "" if none
    yt_stages,              \* the stages process_youtube_video has entered, in order
    yt_chunk_files,         \* the audio files left in OUTPUT_DIR for transcription
    yt_audio_files,         \* the list transcribe_audio_segments returned
    yt_all_segments,        \* the local all_segments
    yt_s3_urls,             \* the local s3_urls
    yt_outcome,             \* how the call ended: the returned message or the raised exception
    yt_produced,            \* the intermediate files the run has written so far
    yt_intermediates,       \* the intermediate files present on disk
    \* ---- sanitize_filename ----
    san_pc,                 \* "call" | "returned"
    san_title,              \* the argument filename
    san_result,             \* the returned name
    \* ---- transcribe_audio_segments ----
    tr_pc,                  \* position in transcribe_audio_segments and its caller
    tr_cache_exists,        \* whether transcriptions.json exists
    tr_cache,               \* the list stored in transcriptions.json
    tr_dir,                 \* the names of the files in output_dir
    tr_files,               \* audio_files: the sorted names with an audio extension
    tr_idx,                 \* index of the file being transcribed
    tr_attempt,             \* attempt of the retry loop (0-based, as range(MAX_RETRIES))
    tr_results,             \* results
    tr_api_calls,           \* the speech-to-text calls made: file name and outcome
    tr_loaded,              \* whether the return value was loaded from transcriptions.json
    tr_returned,            \* the list returned
    tr_timeline,            \* what create_segment_json makes of the returned list
    \* ---- upload_video_segments_to_s3 ----
    up_pc,                  \* position in upload_video_segments_to_s3
    video_segments,         \* its argument: the cut files (path, kind they were cut as, whether on disk)
    up_i,                   \* index of the for loop over video_segments
    s3_urls,                \* the list it builds and returns
    up_sources,             \* for each element of s3_urls, the index of its file in video_segments
    \* ---- progress_stream_endpoint and the shared progress queue ----
    st_queue,               \* the one Modal queue all jobs publish to: (queue_key, update_data) pairs
    st_put_errors,          \* updates whose put raised (logged and dropped)
    st_issued,              \* per job: how many of its updates send_progress_update was called for
    st_url,                 \* per stream: the s3_url it was opened for
    st_pc,                  \* per stream: position in generate_progress_stream
    st_out,                 \* per stream: the update_data events it has yielded
    st_dropped,             \* the queue items a stream removed and did not yield
    \* ---- concurrent runs of process_video_background on the shared volume ----
    cj_pc,                  \* per job: position in process_video_background
    cj_output,              \* the files of /data/output: whose job wrote them, and what they are
    cj_error,               \* per job: the exception its outer handler reported
    cj_lost,                \* files of a running job that another job removed
    cj_listing,             \* per job: the entries of directory.iterdir() the clean-up has yet to visit
    cj_file_path,           \* per job: the entry the clean-up loop is at
    \* ---- download_youtube_video of main.py ----
    md_pc,                  \* "download" | "search" | "probe" | "returned"
    md_attempt,             \* which of the three download configurations runs next (1-based)
    downloaded_files,       \* the list the search for the downloaded file built
    md_probed,              \* the files ffprobe was run on, in order
    md_returned,            \* the return value (NoFile for None)
    \* ---- the names of the audio files, from the source file to chunk_number ----
    nm_pc,                  \* "idle" | "extract" | "chunk" | "number" | "numbered"
    nm_caller,              \* the pipeline that names the extracted audio
    nm_stem,                \* Path(video_path).stem of the source file
    nm_chunks,              \* how many chunks the chunker makes of the audio (0: it is not chunked)
    nm_audio,               \* the name of the extracted audio file
    nm_output,              \* the names of the audio files in the output directory
    nm_files,               \* the names of the files given to create_segment_json, in order
    nm_numbers,             \* the chunk_number create_segment_json computes for each of them
    \* ---- successive jobs and the files of the video_segments directory ----
    ex_pc,                  \* "idle" | "cleanup" | "cut" | "list" | "upload" | "returned"
    ex_job,                 \* which job is running (1 is the first since the directory was empty)
    ex_cwd_is_data,         \* whether the working directory is /data, so that video_segments is VIDEO_SEGMENTS_DIR
    ex_disk,                \* the files under video_segments: directory, name, the job that cut them
    ex_success,             \* what create_video_segments returned
    ex_all_segments,        \* the local all_segments of the running job
    ex_s3_urls,             \* the files of the local s3_urls of the running job
    \* ---- upload_video_segments_to_s3 of main.py ----
    mu_pc,                  \* "idle" | "start" | "loop" | "cleanup" | "returned"
    mu_on_disk,             \* for each element of its argument video_segments: whether the file is on disk
    mu_i,                   \* index of the for loop over video_segments
    mu_s3_urls,             \* s3_urls: the indices of the segments appended to it, in order
    mu_failed,              \* the indices of the segments whose upload returned None
    mu_deleted,             \* the indices of the segments cleanup_video_segments_after_s3_upload unlinked
    \* ---- extract_audio_endpoint and its launcher thread ----
    la_pc,                  \* "idle" | "endpoint" | "call" | "remote" | "returned" | "raised"
    la_attempt,             \* the loop variable attempt of start_background_processing
    la_calls,               \* how many times process_video_background.remote was called
    la_sleeps,              \* how many times time.sleep(retry_delay) returned
    la_retry_delay,         \* retry_delay in the scope of start_background_processing: <<>> while unbound
    la_failed_sent,         \* whether the launcher called send_progress_update with status failed
    la_exception            \* the exception that left start_background_processing

segVars   == <<audio_files, file_idx, segment_json, interaction_segments,
               prev_topics, gpt_log, seg_result, seg_pc>>
chunkVars == <<total_duration, chunk_duration_minutes, range_pos, chunk_files, chunk_pc>>
jobVars   == <<pc, job_url, checkpoint_file, progress_queue, put_errors, all_segments,
               video_path, returncode, job_chunk_files, segments_json_file>>
cutVars   == <<cut_pc, segments_file, video_arg, ORIGINAL_VIDEO, regular_segments,
               cut_interactions, loop_i, cut_log, successful_extractions,
               failed_extractions, interaction_extractions, interaction_failures,
               cut_result>>
ytVars    == <<yt_pc, youtube_url, yt_segments_json, strategy_i, strategy_log,
               download_result, download_logged, yt_stages, yt_chunk_files, yt_audio_files,
               yt_all_segments, yt_s3_urls, yt_outcome, yt_produced, yt_intermediates>>
sanVars == <<san_pc, san_title, san_result>>
trVars == <<tr_pc, tr_cache_exists, tr_cache, tr_dir, tr_files, tr_idx, tr_attempt, tr_results, tr_api_calls, tr_loaded, tr_returned, tr_timeline>>
upVars == <<up_pc, video_segments, up_i, s3_urls, up_sources>>
stVars == <<st_queue, st_put_errors, st_issued, st_url, st_pc, st_out, st_dropped>>
cjVars == <<cj_pc, cj_output, cj_error, cj_lost, cj_listing, cj_file_path>>
mdVars == <<md_pc, md_attempt, downloaded_files, md_probed, md_returned>>
nmVars == <<nm_pc, nm_caller, nm_stem, nm_chunks, nm_audio, nm_output, nm_files, nm_numbers>>
exVars == <<ex_pc, ex_job, ex_cwd_is_data, ex_disk, ex_success, ex_all_segments, ex_s3_urls>>
muVars == <<mu_pc, mu_on_disk, mu_i, mu_s3_urls, mu_failed, mu_deleted>>
laVars == <<la_pc, la_attempt, la_calls, la_sleeps, la_retry_delay, la_failed_sent, la_exception>>
vars      == <<segVars, chunkVars, jobVars, cutVars, ytVars, sanVars, trVars, upVars, stVars, cjVars, mdVars, nmVars, exVars, muVars, laVars>>
\* What the steps of one function leave alone: the state of the others.
notSegVars   == <<chunkVars, jobVars, cutVars, ytVars, sanVars, trVars, upVars, stVars, cjVars, mdVars, nmVars, exVars, muVars, laVars>>
notChunkVars == <<segVars, jobVars, cutVars, ytVars, sanVars, trVars, upVars, stVars, cjVars, mdVars, nmVars, exVars, muVars, laVars>>
notJobVars   == <<segVars, chunkVars, cutVars, ytVars, sanVars, trVars, upVars, stVars, cjVars, mdVars, nmVars, exVars, muVars, laVars>>
notCutVars   == <<segVars, chunkVars, jobVars, ytVars, sanVars, trVars, upVars, stVars, cjVars, mdVars, nmVars, exVars, muVars, laVars>>
notYtVars    == <<segVars, chunkVars, jobVars, cutVars, sanVars, trVars, upVars, stVars, cjVars, mdVars, nmVars, exVars, muVars, laVars>>
notSanVars == <<segVars, chunkVars, jobVars, cutVars, ytVars, trVars, upVars, stVars, cjVars, mdVars, nmVars, exVars, muVars, laVars>>
notTrVars == <<segVars, chunkVars, jobVars, cutVars, ytVars, sanVars, upVars, stVars, cjVars, mdVars, nmVars, exVars, muVars, laVars>>
notUpVars == <<segVars, chunkVars, jobVars, cutVars, ytVars, sanVars, trVars, stVars, cjVars, mdVars, nmVars, exVars, muVars, laVars>>
notStVars == <<segVars, chunkVars, jobVars, cutVars, ytVars, sanVars, trVars, upVars, cjVars, mdVars, nmVars, exVars, muVars, laVars>>
notCjVars == <<segVars, chunkVars, jobVars, cutVars, ytVars, sanVars, trVars, upVars, stVars, mdVars, nmVars, exVars, muVars, laVars>>
notMdVars == <<segVars, chunkVars, jobVars, cutVars, ytVars, sanVars, trVars, upVars, stVars, cjVars, nmVars, exVars, muVars, laVars>>
notNmVars == <<segVars, chunkVars, jobVars, cutVars, ytVars, sanVars, trVars, upVars, stVars, cjVars, mdVars, exVars, muVars, laVars>>
notExVars == <<segVars, chunkVars, jobVars, cutVars, ytVars, sanVars, trVars, upVars, stVars, cjVars, mdVars, nmVars, muVars, laVars>>
notMuVars == <<segVars, chunkVars, jobVars, cutVars, ytVars, sanVars, trVars, upVars, stVars, cjVars, mdVars, nmVars, exVars, laVars>>
notLaVars == <<segVars, chunkVars, jobVars, cutVars, ytVars, sanVars, trVars, upVars, stVars, cjVars, mdVars, nmVars, exVars, muVars>>
notJobLaVars == <<segVars, chunkVars, cutVars, ytVars, sanVars, trVars, upVars, stVars, cjVars, mdVars, nmVars, exVars, muVars>>

(***************************************************************************)
(* Python text primitives                                                  *)
(***************************************************************************)
Digits == {"0", "1", "2", "3", "4", "5", "6", "7", "8", "9"}

DigitVal(c) ==
    CASE c = "0" -> 0 [] c = "1" -> 1 [] c = "2" -> 2 [] c = "3" -> 3 [] c = "4" -> 4
      [] c = "5" -> 5 [] c = "6" -> 6 [] c = "7" -> 7 [] c = "8" -> 8 [] c = "9" -> 9

DigitChar(d) ==
    CASE d = 0 -> "0" [] d = 1 -> "1" [] d = 2 -> "2" [] d = 3 -> "3" [] d = 4 -> "4"
      [] d = 5 -> "5" [] d = 6 -> "6" [] d = 7 -> "7" [] d = 8 -> "8" [] d = 9 -> "9"

RECURSIVE DigitsVal(_)
DigitsVal(s) ==
    IF s = <<>> THEN 0
    ELSE DigitsVal(SubSeq(s, 1, Len(s) - 1)) * 10 + DigitVal(s[Len(s)])

\* The outcome of a conversion that may raise: ok = FALSE stands for the exception.
Raised == [ok |-> FALSE, val |-> 0]
Value(n) == [ok |-> TRUE, val |-> n]

\* int(s) on a str: an optional sign and one or more decimal digits, else ValueError.
\* (The modelled alphabet has no blanks or underscores.)
PyInt(s) ==
    LET signed == Len(s) > 0 /\ s[1] \in {"-", "+"}
        body   == IF signed THEN Tail(s) ELSE s
    IN  IF body = <<>> \/ \E i \in 1..Len(body) : body[i] \notin Digits
        THEN Raised
        ELSE Value(IF signed /\ s[1] = "-" THEN 0 - DigitsVal(body) ELSE DigitsVal(body))

\* s.split(sep) for a one-character separator.
RECURSIVE Split(_, _)
Split(s, sep) ==
    IF \A i \in 1..Len(s) : s[i] # sep
    THEN <<s>>
    ELSE LET i == CHOOSE k \in 1..Len(s) : s[k] = sep /\ \A m \in 1..(k - 1) : s[m] # sep
         IN  <<SubSeq(s, 1, i - 1)>> \o Split(SubSeq(s, i + 1, Len(s)), sep)

\* f"{n}" for an int.
RECURSIVE IntToStr(_)
IntToStr(n) ==
    IF n < 0 THEN <<"-">> \o IntToStr(0 - n)
    ELSE IF n < 10 THEN <<DigitChar(n)>>
    ELSE IntToStr(n \div 10) \o <<DigitChar(n % 10)>>

\* f"{n:02d}" and f"{n:03d}" for an int n >= 0.
Pad2(n) == IF n < 10 THEN <<"0">> \o IntToStr(n) ELSE IntToStr(n)
Pad3(n) == IF n < 10 THEN <<"0", "0">> \o IntToStr(n)
           ELSE IF n < 100 THEN <<"0">> \o IntToStr(n) ELSE IntToStr(n)

\* f"{int(x//60):02d}:{int(x%60):02d}"
FormatMMSS(x) == Pad2(x \div 60) \o <<":">> \o Pad2(x % 60)

(***************************************************************************)
(* JSON values of a classifier answer                                      *)
(***************************************************************************)
\* A JSON string is its character sequence; null and a missing key are the two
\* distinguished values below (neither is a character sequence of the alphabet).
JsonNull == <<"null">>
Absent   == <<"absent">>
IsStr(v) == v # JsonNull

\* dict.get(key, default)
DictGet(v, default) == IF v = Absent THEN default ELSE v

Item(title, start, end) ==
    [is_dict |-> TRUE, has_title |-> TRUE, title |-> title, start |-> start, end |-> end,
     interaction_type |-> Absent]
NonDictItem ==
    [is_dict |-> FALSE, has_title |-> FALSE, title |-> "", start |-> Absent, end |-> Absent,
     interaction_type |-> Absent]
NoTitleItem(start, end) ==
    [is_dict |-> TRUE, has_title |-> FALSE, title |-> "", start |-> start, end |-> end,
     interaction_type |-> Absent]
\* An item of the interaction classifier that carries the key interaction_type.
TypedItem(item, interaction_type) == [item EXCEPT !.interaction_type = interaction_type]

\* One answer of the remote classifier to one attempt.
ApiError    == [kind |-> "api_error", items |-> <<>>]
NotJson     == [kind |-> "not_json",  items |-> <<>>]
NotList     == [kind |-> "not_list",  items |-> <<>>]
List(items) == [kind |-> "list",      items |-> items]

(***************************************************************************)
(* transcribe_segments.py                                                  *)
(***************************************************************************)
MAX_RETRIES == 3
NOMINAL_CHUNK_SECONDS == 600

\* int(parts[0]) * 60 + int(parts[1]) of create_segment_json: ok = FALSE is the
\* ValueError or IndexError its except clause catches.
ParseSeconds(str) ==
    LET parts == Split(str, ":")
    IN  IF Len(parts) < 2 THEN Raised
        ELSE LET m == PyInt(parts[1])
                 s == PyInt(parts[2])
             IN  IF m.ok /\ s.ok THEN Value(m.val * 60 + s.val) ELSE Raised

\* Variants of _validate_timestamp: start > end accepted; no upper limit on end.
validate_timestamp_off_by_one(start_str, end_str, chunk_duration) ==
    IF ~IsStr(start_str) \/ ~IsStr(end_str) THEN "AttributeError"
    ELSE LET start_parts == Split(start_str, ":")
             end_parts   == Split(end_str, ":")
         IN  IF Len(start_parts) # 2 \/ Len(end_parts) # 2 THEN "False"
             ELSE LET s == ParseSeconds(start_str)
                      e == ParseSeconds(end_str)
                  IN  IF ~s.ok \/ ~e.ok THEN "False"
                      ELSE IF s.val < 0 \/ e.val > chunk_duration THEN "False"
                      ELSE IF s.val > e.val THEN "False"
                      ELSE "True"

validate_timestamp_no_end_limit(start_str, end_str, chunk_duration) ==
    IF ~IsStr(start_str) \/ ~IsStr(end_str) THEN "AttributeError"
    ELSE LET start_parts == Split(start_str, ":")
             end_parts   == Split(end_str, ":")
         IN  IF Len(start_parts) # 2 \/ Len(end_parts) # 2 THEN "False"
             ELSE LET s == ParseSeconds(start_str)
                      e == ParseSeconds(end_str)
                  IN  IF ~s.ok \/ ~e.ok THEN "False"
                      ELSE IF s.val < 0 THEN "False"
                      ELSE IF s.val >= e.val THEN "False"
                      ELSE "True"

\* _validate_timestamp: "True", "False", or "AttributeError" when an argument is
\* not a str (split is then not an attribute; the except clause does not catch it).
validate_timestamp(start_str, end_str, chunk_duration) ==
    IF ~IsStr(start_str) \/ ~IsStr(end_str) THEN "AttributeError"
    ELSE LET start_parts == Split(start_str, ":")
             end_parts   == Split(end_str, ":")
         IN  IF Len(start_parts) # 2 \/ Len(end_parts) # 2 THEN "False"
             ELSE LET s == ParseSeconds(start_str)
                      e == ParseSeconds(end_str)
                  IN  IF ~s.ok \/ ~e.ok THEN "False"
                      ELSE IF s.val < 0 \/ e.val > chunk_duration THEN "False"
                      ELSE IF s.val >= e.val THEN "False"
                      ELSE "True"

\* The verdict on one item of a parsed list: items that are no dict or have no
\* title are passed over without a call of _validate_timestamp.
ItemVerdict(item, chunk_duration) ==
    IF item.is_dict /\ item.has_title
    THEN validate_timestamp(DictGet(item.start, <<"0", "0", ":", "0", "0">>),
                            DictGet(item.end, <<"0", "0", ":", "0", "0">>),
                            chunk_duration)
    ELSE "skipped"

ValidatedItems(items, chunk_duration) ==
    SelectSeq(items, LAMBDA it : ItemVerdict(it, chunk_duration) = "True")

\* Whether one attempt ends in the outer except clause: the API call raised, or
\* the validation loop raised AttributeError.
AttemptRaises(response, chunk_duration) ==
    \/ response.kind = "api_error"
    \/ /\ response.kind = "list"
       /\ \E i \in 1..Len(response.items) :
              ItemVerdict(response.items[i], chunk_duration) = "AttributeError"

\* {"title": "Unknown", "start": "00:00", "end": f"{max_minutes}:{max_seconds:02d}"}
UnknownTopic(chunk_duration) ==
    Item("Unknown", <<"0", "0", ":", "0", "0">>,
         IntToStr(chunk_duration \div 60) \o <<":">> \o Pad2(chunk_duration % 60))

validated_or_unknown_without_fallback(validated_topics, chunk_duration) == validated_topics

\* return validated_topics if validated_topics else [{"title": "Unknown", ...}]
validated_or_unknown(validated_topics, chunk_duration) ==
    IF validated_topics # <<>> THEN validated_topics ELSE <<UnknownTopic(chunk_duration)>>

\* analyse_topic_gpt: responses[a] is the classifier's answer to attempt a.  The
\* result is the returned list with the number of API calls made.
RECURSIVE TopicAttempt(_, _, _)
TopicAttempt(responses, attempt, chunk_duration) ==
    LET r == responses[attempt]
    IN  IF AttemptRaises(r, chunk_duration)
        THEN IF attempt < MAX_RETRIES
             THEN TopicAttempt(responses, attempt + 1, chunk_duration)
             ELSE [topics |-> <<UnknownTopic(chunk_duration)>>, calls |-> attempt]
        ELSE IF r.kind = "list"
             THEN LET validated_topics == ValidatedItems(r.items, chunk_duration)
                  IN  [topics |-> validated_or_unknown(validated_topics, chunk_duration),
                       calls |-> attempt]
             ELSE [topics |-> <<UnknownTopic(chunk_duration)>>, calls |-> attempt]

analyse_topic_gpt_empty_fallback(responses, chunk_duration) ==
    IF \A a \in 1..MAX_RETRIES : a <= Len(responses) /\ AttemptRaises(responses[a], chunk_duration)
    THEN [topics |-> <<>>, calls |-> MAX_RETRIES]
    ELSE TopicAttempt(responses, 1, chunk_duration)

analyse_topic_gpt_unvalidated(responses, chunk_duration) ==
    LET r == TopicAttempt(responses, 1, chunk_duration)
        last == responses[r.calls]
    IN  IF last.kind = "list" /\ ~AttemptRaises(last, chunk_duration) /\ last.items # <<>>
        THEN [topics |-> last.items, calls |-> r.calls]
        ELSE r

analyse_topic_gpt(responses, chunk_duration) ==
    TopicAttempt(responses, 1, chunk_duration)

\* detect_speaker_student_interactions: the same loop with an empty fallback.
RECURSIVE InteractionAttempt(_, _, _)
InteractionAttempt(responses, attempt, chunk_duration) ==
    LET r == responses[attempt]
    IN  IF AttemptRaises(r, chunk_duration)
        THEN IF attempt < MAX_RETRIES
             THEN InteractionAttempt(responses, attempt + 1, chunk_duration)
             ELSE [interactions |-> <<>>, calls |-> attempt]
        ELSE IF r.kind = "list"
             THEN [interactions |-> ValidatedItems(r.items, chunk_duration), calls |-> attempt]
             ELSE [interactions |-> <<>>, calls |-> attempt]

detect_speaker_student_interactions(responses, chunk_duration) ==
    InteractionAttempt(responses, 1, chunk_duration)

\* chunk_number of create_segment_json: int(filename.split("_")[1]), 1 on
\* ValueError or IndexError.
ChunkNumberOf(filename) ==
    LET parts == Split(filename, "_")
    IN  IF Len(parts) < 2 THEN 1
        ELSE LET n == PyInt(parts[2]) IN IF n.ok THEN n.val ELSE 1

global_start_offset_by_duration(chunk_number, chunk_duration) ==
    (chunk_number - 1) * chunk_duration

\* global_start_offset = (chunk_number - 1) * 600
global_start_offset(chunk_number, chunk_duration) ==
    (chunk_number - 1) * NOMINAL_CHUNK_SECONDS

\* The entry create_segment_json appends for one item of a result list: the try
\* branch when both timestamps convert (with the clamp of the end to the chunk
\* duration), the except branch (the whole chunk) when one does not.
UnknownType == <<"U", "n", "k", "n", "o", "w", "n">>

interaction_type_without_default(item, segment_type) ==
    IF segment_type = "interaction" THEN item.interaction_type ELSE Absent

\* "interaction_type": interaction.get("interaction_type", "Unknown") in an
\* interaction entry; a topic entry has no such key.
interaction_type_of(item, segment_type) ==
    IF segment_type = "interaction"
    THEN DictGet(item.interaction_type, UnknownType)
    ELSE Absent

SegmentEntry(item, audio_file, segment_type) ==
    LET chunk_duration   == audio_file.segments[Len(audio_file.segments)].end
        chunk_start_time == audio_file.segments[1].start
        chunk_number     == ChunkNumberOf(audio_file.filename)
        offset           == global_start_offset(chunk_number, chunk_duration)
        start_str        == DictGet(item.start, <<"0", "0", ":", "0", "0">>)
        end_str          == DictGet(item.end, <<"0", "0", ":", "0", "0">>)
        s                == ParseSeconds(start_str)
        e                == ParseSeconds(end_str)
        converted        == s.ok /\ e.ok
        clamp            == converted /\ e.val > chunk_duration
        end_seconds      == IF clamp THEN chunk_duration ELSE e.val
    IN  [title        |-> item.title,
         start        |-> IF converted THEN start_str ELSE <<"0", "0", ":", "0", "0">>,
         end          |-> IF converted
                          THEN (IF clamp THEN FormatMMSS(end_seconds) ELSE end_str)
                          ELSE FormatMMSS(chunk_duration),
         filename     |-> audio_file.filename,
         start_time   |-> IF converted THEN offset + s.val ELSE offset,
         end_time     |-> IF converted THEN offset + end_seconds ELSE offset + chunk_duration,
         chunk_start  |-> chunk_start_time,
         chunk_end    |-> chunk_duration,
         chunk_number |-> chunk_number,
         interaction_type |-> interaction_type_of(item, segment_type),
         segment_type |-> segment_type]

RECURSIVE EntriesOf(_, _, _)
EntriesOf(items, audio_file, segment_type) ==
    IF items = <<>> THEN <<>>
    ELSE LET it == Head(items)
         IN  (IF it.is_dict /\ it.has_title
              THEN <<SegmentEntry(it, audio_file, segment_type)>>
              ELSE <<>>)
             \o EntriesOf(Tail(items), audio_file, segment_type)

(***************************************************************************)
(* Inputs of create_segment_json                                           *)
(***************************************************************************)
MaxChunks == 2

T(m, s) == Pad2(m) \o <<":">> \o Pad2(s)

\* The segments of a transcribed file whose last segment ends at d (whole seconds
\* of the float the speech-to-text capability reports; 0 is a file shorter than
\* one second).
Segments(d) == <<[start |-> 0, end |-> d]>>

TranscribedFile(filename, d) == [filename |-> filename, error |-> FALSE, segments |-> Segments(d)]
FailedFile(filename)         == [filename |-> filename, error |-> TRUE,  segments |-> <<>>]
SilentFile(filename)         == [filename |-> filename, error |-> FALSE, segments |-> <<>>]

\* f"chunk_{i+1:03d}_{audio_path.stem}.mp3" of chunk_audio, for the stem "a".
ChunkFilename(k) ==
    <<"c", "h", "u", "n", "k", "_">> \o Pad3(k) \o <<"_", "a", ".", "m", "p", "3">>
\* f"{file_id}_s3_audio.mp3" of an audio file that was not chunked.
UnchunkedFilename ==
    <<"i", "d", "_", "s", "3", "_", "a", "u", "d", "i", "o", ".", "m", "p", "3">>

\* Durations (the end of the last transcript segment, which create_segment_json
\* takes as it is, line 359).  Every chunk chunk_audio writes but the last
\* holds 600 s of audio (CHUNK_DURATION_MINUTES = 10); the last chunk holds what
\* is left, possibly less than a second.  A file that was not chunked is under
\* 25 MB, which at 192 kbit/s is up to about 1090 s.
InnerChunkDurations == {600}
LastChunkDurations  == {0, 300, 600}
UnchunkedDurations  == {0, 180, 900}

FilesNamed(filename, durations) ==
    {TranscribedFile(filename, d) : d \in durations}
        \cup {FailedFile(filename), SilentFile(filename)}

ChunkedLists(n) ==
    {fs \in [1..n -> UNION {FilesNamed(ChunkFilename(k), LastChunkDurations) : k \in 1..n}] :
        \A k \in 1..n :
            /\ fs[k].filename = ChunkFilename(k)
            /\ (k < n /\ fs[k].segments # <<>>) => fs[k].segments[1].end \in InnerChunkDurations}

\* Nothing in create_segment_json ties the duration of a file to its name: a
\* file named as chunk 1 whose transcript runs for 900 s, followed by chunk 2.
OverlongChunkLists ==
    {<<TranscribedFile(ChunkFilename(1), 900), f>> : f \in FilesNamed(ChunkFilename(2), {300})}

\* A chunk file followed by an audio file that was not chunked:
\* transcribe_audio_segments returns every audio file of the output directory,
\* sorted by name.
MixedLists ==
    {<<f, TranscribedFile(UnchunkedFilename, 180)>> : f \in FilesNamed(ChunkFilename(1), {300})}

AudioFileInputs ==
    UNION {ChunkedLists(n) : n \in 1..MaxChunks}
        \cup OverlongChunkLists
        \cup MixedLists
        \cup {<<f>> : f \in FilesNamed(UnchunkedFilename, UnchunkedDurations)}

\* Classifier items: title, start, end.
TopicA == Item("A", T(1, 0), T(3, 0))                        \* 60..180
TopicB == Item("B", T(4, 0), T(12, 0))                       \* valid start, end past every chunk
TopicC == Item("C", <<"a", "b", "c">>, T(2, 0))              \* start is no timestamp
TopicD == Item("D", T(3, 0), T(3, 0))                        \* start = end
TopicE == Item("E", <<"-", "1", ":", "3", "0">>, T(2, 0))    \* start = -30
TopicF == Item("F", T(9, 0), T(10, 0))                       \* 540..600
TopicG == Item("G", JsonNull, T(1, 0))                       \* start is null
TopicH == Item("H", <<"0", "0", ":", "0", "1", ":", "0", "0">>,
                    <<"0", "0", ":", "0", "2", ":", "0", "0">>)   \* HH:MM:SS
TopicR == Item("R", T(5, 0), T(2, 0))                        \* start > end
TopicZ == Item("Z", T(11, 0), T(12, 0))                      \* starts past every chunk

\* Answers of the topic classifier to the attempts of one call of analyse_topic_gpt;
\* every script ends with an answer that does not raise, or has MAX_RETRIES answers.
TopicScripts ==
    { <<List(<<TopicA, TopicB, TopicZ>>)>>,
      <<List(<<TopicC, TopicD, TopicE, TopicH, TopicR, NonDictItem, NoTitleItem(T(0, 0), T(1, 0))>>)>>,
      <<List(<<TopicF>>)>>,
      <<ApiError, ApiError, ApiError>>,
      <<List(<<TopicG>>), ApiError, List(<<TopicA>>)>>,
      <<NotJson>>,
      <<NotList>> }

QuestionType == <<"q", "u", "e", "s", "t", "i", "o", "n">>
InterQ == TypedItem(Item("Q", T(2, 0), T(4, 0)), QuestionType)   \* 120..240
InterX == Item("X", T(4, 0), T(11, 0))                       \* valid start, end past every chunk
InterY == Item("Y", T(1, 0), <<"x">>)                        \* end is no timestamp
InterL == TypedItem(Item("L", T(9, 30), T(10, 0)), QuestionType)  \* 570..600
InterN == Item("N", T(0, 30), T(1, 0))                       \* 30..60, no interaction_type
InterU == TypedItem(NoTitleItem(T(0, 10), T(0, 20)), QuestionType)  \* no title

InteractionScripts ==
    { <<List(<<InterQ, InterX, InterY>>)>>,
      <<ApiError, ApiError, ApiError>>,
      <<List(<<InterL>>)>>,
      <<List(<<InterN, InterU>>)>>,
      <<ApiError, NotJson>> }

(***************************************************************************)
(* create_segment_json as a state machine: one step per audio file         *)
(***************************************************************************)
InitSegVars ==
    /\ audio_files \in AudioFileInputs
    /\ file_idx = 1
    /\ segment_json = <<>>
    /\ interaction_segments = <<>>
    /\ prev_topics = <<>>
    /\ gpt_log = <<>>
    /\ seg_result = <<>>
    /\ seg_pc = "loop"

IdleLaVars ==
    /\ la_pc = "idle"
    /\ la_attempt = 0
    /\ la_calls = 0
    /\ la_sleeps = 0
    /\ la_retry_delay = <<>>
    /\ la_failed_sent = FALSE
    /\ la_exception = ""

IdleMuVars ==
    /\ mu_pc = "idle"
    /\ mu_on_disk = <<>>
    /\ mu_i = 1
    /\ mu_s3_urls = <<>>
    /\ mu_failed = {}
    /\ mu_deleted = {}

IdleExVars ==
    /\ ex_pc = "idle"
    /\ ex_job = 0
    /\ ex_cwd_is_data = FALSE
    /\ ex_disk = {}
    /\ ex_success = FALSE
    /\ ex_all_segments = {}
    /\ ex_s3_urls = {}

IdleNmVars ==
    /\ nm_pc = "idle"
    /\ nm_caller = ""
    /\ nm_stem = <<>>
    /\ nm_chunks = 0
    /\ nm_audio = <<>>
    /\ nm_output = {}
    /\ nm_files = <<>>
    /\ nm_numbers = <<>>

IdleMdVars ==
    /\ md_pc = "idle"
    /\ md_attempt = 1
    /\ downloaded_files = <<>>
    /\ md_probed = <<>>
    /\ md_returned = [name |-> "None", probe |-> "none"]

IdleCjVars ==
    /\ cj_pc = <<>>
    /\ cj_output = {}
    /\ cj_error = <<>>
    /\ cj_lost = {}
    /\ cj_listing = <<>>
    /\ cj_file_path = <<>>

IdleStVars ==
    /\ st_queue = <<>>
    /\ st_put_errors = <<>>
    /\ st_issued = <<>>
    /\ st_url = <<>>
    /\ st_pc = <<>>
    /\ st_out = <<>>
    /\ st_dropped = {}

IdleUpVars ==
    /\ up_pc = "idle"
    /\ video_segments = <<>>
    /\ up_i = 1
    /\ s3_urls = <<>>
    /\ up_sources = <<>>

IdleTrVars ==
    /\ tr_pc = "idle"
    /\ tr_cache_exists = FALSE
    /\ tr_cache = <<>>
    /\ tr_dir = {}
    /\ tr_files = <<>>
    /\ tr_idx = 1
    /\ tr_attempt = 0
    /\ tr_results = <<>>
    /\ tr_api_calls = <<>>
    /\ tr_loaded = FALSE
    /\ tr_returned = <<>>
    /\ tr_timeline = <<>>

IdleSanVars ==
    /\ san_pc = "idle"
    /\ san_title = <<>>
    /\ san_result = <<>>

IdleSegVars ==
    /\ audio_files = <<>>
    /\ file_idx = 1
    /\ segment_json = <<>>
    /\ interaction_segments = <<>>
    /\ prev_topics = <<>>
    /\ gpt_log = <<>>
    /\ seg_result = <<>>
    /\ seg_pc = "idle"

IdleChunkVars ==
    /\ total_duration = 0
    /\ chunk_duration_minutes = 0
    /\ range_pos = 0
    /\ chunk_files = <<>>
    /\ chunk_pc = "idle"

IdleJobVars ==
    /\ pc = "idle"
    /\ job_url = ""
    /\ checkpoint_file = [state |-> "absent"]
    /\ progress_queue = <<>>
    /\ put_errors = <<>>
    /\ all_segments = <<>>
    /\ video_path = ""
    /\ returncode = 0
    /\ job_chunk_files = <<>>
    /\ segments_json_file = FALSE

IdleCutVars ==
    /\ cut_pc = "idle"
    /\ segments_file = [exists |-> FALSE, segments |-> <<>>]
    /\ video_arg = "None"
    /\ ORIGINAL_VIDEO = "None"
    /\ regular_segments = <<>>
    /\ cut_interactions = <<>>
    /\ loop_i = 1
    /\ cut_log = <<>>
    /\ successful_extractions = 0
    /\ failed_extractions = 0
    /\ interaction_extractions = 0
    /\ interaction_failures = 0
    /\ cut_result = "None"

IdleYtVars ==
    /\ yt_pc = "idle"
    /\ youtube_url = ""
    /\ yt_segments_json = [exists |-> FALSE, segments |-> <<>>]
    /\ strategy_i = 1
    /\ strategy_log = <<>>
    /\ download_result = "None"
    /\ download_logged = ""
    /\ yt_stages = <<>>
    /\ yt_chunk_files = <<>>
    /\ yt_audio_files = <<>>
    /\ yt_all_segments = <<>>
    /\ yt_s3_urls = <<>>
    /\ yt_outcome = [kind |-> "running", message |-> ""]
    /\ yt_produced = {}
    /\ yt_intermediates = {}

\* One iteration of the for loop of create_segment_json.
prev_topics_accumulated(previous, topics) == previous \o topics

\* prev_topics = topics, at the end of the loop body of an analysed file
prev_topics_update(previous, topics) == topics

AnalyseFile ==
    /\ seg_pc = "loop"
    /\ file_idx <= Len(audio_files)
    /\ LET audio_file == audio_files[file_idx]
       IN  IF audio_file.error \/ audio_file.segments = <<>>
           THEN UNCHANGED <<segment_json, interaction_segments, prev_topics, gpt_log>>
           ELSE \E topic_answers \in TopicScripts, interaction_answers \in InteractionScripts :
                    LET chunk_duration == audio_file.segments[Len(audio_file.segments)].end
                        t == analyse_topic_gpt(topic_answers, chunk_duration)
                        i == detect_speaker_student_interactions(interaction_answers, chunk_duration)
                    IN  /\ segment_json' =
                               segment_json \o EntriesOf(t.topics, audio_file, "topic")
                        /\ interaction_segments' =
                               interaction_segments
                                   \o EntriesOf(i.interactions, audio_file, "interaction")
                        /\ prev_topics' = prev_topics_update(prev_topics, t.topics)
                        /\ gpt_log' = Append(gpt_log,
                               [filename            |-> audio_file.filename,
                                previous_topics     |-> prev_topics,
                                topic_answers       |-> topic_answers,
                                topic_calls         |-> t.calls,
                                interaction_answers |-> interaction_answers,
                                interaction_calls   |-> i.calls])
    /\ file_idx' = file_idx + 1
    /\ UNCHANGED <<audio_files, seg_result, seg_pc, notSegVars>>

\* all_segments = segment_json + interaction_segments; return all_segments
ReturnSegments ==
    /\ seg_pc = "loop"
    /\ file_idx > Len(audio_files)
    /\ seg_result' = segment_json \o interaction_segments
    /\ seg_pc' = "returned"
    /\ UNCHANGED <<audio_files, file_idx, segment_json, interaction_segments,
                   prev_topics, gpt_log, notSegVars>>

InitSeg == InitSegVars /\ IdleChunkVars /\ IdleJobVars /\ IdleCutVars /\ IdleYtVars /\ IdleSanVars /\ IdleTrVars /\ IdleUpVars /\ IdleStVars /\ IdleCjVars /\ IdleMdVars /\ IdleNmVars /\ IdleExVars /\ IdleMuVars /\ IdleLaVars
NextSeg == AnalyseFile \/ ReturnSegments
SpecSeg == InitSeg /\ [][NextSeg]_vars

(***************************************************************************)
(* Properties of create_segment_json                                       *)
(***************************************************************************)
EntrySet == {segment_json[n] : n \in 1..Len(segment_json)}
                \cup {interaction_segments[n] : n \in 1..Len(interaction_segments)}

LogSet == {gpt_log[n] : n \in 1..Len(gpt_log)}

\* The place of the file in the list.
PositionOf(filename) == CHOOSE k \in 1..Len(audio_files) : audio_files[k].filename = filename

\* The chunk an entry comes from: the chunk_number create_segment_json computes
\* from the name of its file.
ChunkOf(filename) == ChunkNumberOf(filename)

DurationOf(filename) ==
    LET f == audio_files[PositionOf(filename)] IN f.segments[Len(f.segments)].end

ItemsOf(answers) == UNION {{answers[a].items[n] : n \in 1..Len(answers[a].items)} : a \in 1..Len(answers)}

\* The timestamps of a classifier item as the claims read them: MM:SS is two
\* integer fields around one colon.
IsMMSS(v) ==
    /\ IsStr(v)
    /\ Len(Split(v, ":")) = 2
    /\ PyInt(Split(v, ":")[1]).ok
    /\ PyInt(Split(v, ":")[2]).ok
SecondsOf(v) == PyInt(Split(v, ":")[1]).val * 60 + PyInt(Split(v, ":")[2]).val
StartOf(item) == DictGet(item.start, <<"0", "0", ":", "0", "0">>)
EndOf(item) == DictGet(item.end, <<"0", "0", ":", "0", "0">>)

AnswersOfKind(r, kind) == IF kind = "topic" THEN r.topic_answers ELSE r.interaction_answers
CallsOfKind(r, kind) == IF kind = "topic" THEN r.topic_calls ELSE r.interaction_calls
Kinds == {"topic", "interaction"}

\* C1: every timeline entry that comes from chunk number k, with the validated
\* local start s and local end e of a classifier item (or of the Unknown
\* fallback), has start_time = (k-1)*600 + s and end_time = (k-1)*600 + e,
\* whatever the duration of chunk k.
C1_GlobalTimeUsesNominalOffset ==
    \A x \in EntrySet :
        LET k == ChunkOf(x.filename)
        IN  /\ IsMMSS(x.start) /\ IsMMSS(x.end)
            /\ x.start_time = (k - 1) * 600 + SecondsOf(x.start)
            /\ x.end_time = (k - 1) * 600 + SecondsOf(x.end)
            /\ \/ x.title = "Unknown"
               \/ \E r \in LogSet : \E it \in ItemsOf(AnswersOfKind(r, x.segment_type)) :
                      /\ r.filename = x.filename /\ it.title = x.title
                      /\ x.start = StartOf(it) /\ x.end = EndOf(it)

\* Chunk 2, shorter than 600 s, topic 01:00..03:00: 660 and 780.
C1_Witness ==
    \E x \in EntrySet :
        /\ ChunkOf(x.filename) = 2 /\ DurationOf(x.filename) < 600
        /\ x.start = T(1, 0) /\ x.end = T(3, 0)
        /\ x.start_time = 660 /\ x.end_time = 780

\* The machine of SpecSeg under a name of its own, for the order of the
\* timeline across chunks.
SpecSegOrder == InitSeg /\ [][NextSeg]_vars

\* C2 as stated: for two entries of the same kind from chunks i < j, the
\* start_time of the entry from chunk i is at most the start_time of the entry
\* from chunk j, whatever the classifier answered and however long the chunks
\* are.  A chunk 1 of 900 s with a topic at 11:00 (660) and a chunk 2 whose
\* first entry starts at 00:00 (600) refute it.
C2_StartTimesOrderedAcrossChunks ==
    \A x \in EntrySet, y \in EntrySet :
        (x.segment_type = y.segment_type /\ x.chunk_number < y.chunk_number)
            => x.start_time <= y.start_time

\* C2, amended: the order holds when the chunk of the earlier entry is no
\* longer than the 600 s by which chunk numbers are spaced, as every chunk
\* written by chunk_audio is.
C2_StartTimesOrderedForNominalChunks ==
    \A x \in EntrySet, y \in EntrySet :
        (/\ x.segment_type = y.segment_type
         /\ x.chunk_number < y.chunk_number
         /\ x.chunk_end <= NOMINAL_CHUNK_SECONDS)
            => x.start_time <= y.start_time

\* An entry late in a chunk 1 of 600 s (09:00 or later) and an entry at the
\* very start of chunk 2.
C2_Witness ==
    \E x \in EntrySet, y \in EntrySet :
        /\ x.segment_type = y.segment_type
        /\ x.chunk_number = 1 /\ y.chunk_number = 2
        /\ x.chunk_end = NOMINAL_CHUNK_SECONDS
        /\ x.start_time >= 540 /\ y.start_time = 600

BadTimestamps(item) ==
    \/ ~IsMMSS(StartOf(item))
    \/ ~IsMMSS(EndOf(item))
    \/ SecondsOf(StartOf(item)) < 0
    \/ SecondsOf(StartOf(item)) >= SecondsOf(EndOf(item))

\* C4: a classifier item whose start or end is no MM:SS timestamp, whose start
\* is negative, or whose start is not before its end, has no entry in the timeline.
C4_InvalidItemsNeverInTimeline ==
    \A r \in LogSet : \A kind \in Kinds : \A it \in ItemsOf(AnswersOfKind(r, kind)) :
        (it.is_dict /\ it.has_title /\ BadTimestamps(it))
            => ~\E x \in EntrySet :
                   x.filename = r.filename /\ x.segment_type = kind /\ x.title = it.title

\* The run has returned after a classifier answer that held an unparsable start,
\* a negative start, start = end and start > end.
C4_Witness ==
    /\ seg_pc = "returned"
    /\ \E r \in LogSet :
           /\ {TopicC, TopicD, TopicE, TopicR} \subseteq ItemsOf(r.topic_answers)
           /\ InterY \in ItemsOf(r.interaction_answers)

\* The answer a call returned from: the one given to its last attempt.
ReturnedAnswer(r, kind) == AnswersOfKind(r, kind)[CallsOfKind(r, kind)]

EndsPastChunk(it, chunk_duration) ==
    /\ it.is_dict /\ it.has_title
    /\ IsMMSS(StartOf(it)) /\ IsMMSS(EndOf(it))
    /\ SecondsOf(StartOf(it)) >= 0
    /\ SecondsOf(StartOf(it)) < chunk_duration
    /\ SecondsOf(EndOf(it)) > chunk_duration

\* C5: a classifier item with a valid start and an end past the chunk's duration
\* is in the timeline, with its end clamped to the chunk duration.
C5_EndPastChunkIsClamped ==
    \A r \in LogSet : \A kind \in Kinds :
        LET answer == ReturnedAnswer(r, kind)
            d      == DurationOf(r.filename)
            k      == ChunkOf(r.filename)
        IN  (answer.kind = "list" /\ ~AttemptRaises(answer, d))
                => \A it \in ItemsOf(<<answer>>) :
                       EndsPastChunk(it, d)
                           => \E x \in EntrySet :
                                  /\ x.filename = r.filename /\ x.segment_type = kind
                                  /\ x.title = it.title
                                  /\ x.start_time = (k - 1) * 600 + SecondsOf(StartOf(it))
                                  /\ x.end_time = (k - 1) * 600 + d

\* C6 as claimed: every entry has end_time > start_time and spans at most 600 s.
C6_EntriesPositiveAndWithinNominal ==
    \A x \in EntrySet :
        /\ x.end_time > x.start_time
        /\ x.end_time - x.start_time <= 600

\* C6, amended: every entry has end_time >= start_time and spans at most the
\* duration of its own chunk (which exceeds 600 s for a long file that was not
\* chunked); end_time = start_time only for the Unknown fallback of a chunk
\* shorter than one second.
C6_EntriesWithinOwnChunk ==
    \A x \in EntrySet :
        /\ x.end_time >= x.start_time
        /\ x.end_time - x.start_time <= DurationOf(x.filename)
        /\ (x.end_time = x.start_time)
               => (x.title = "Unknown" /\ DurationOf(x.filename) = 0)

\* An entry longer than 600 s and an empty Unknown entry both occur.
C6_Witness ==
    \E x \in EntrySet :
        \/ x.end_time - x.start_time > 600
        \/ (x.end_time = x.start_time /\ x.segment_type = "topic")

AllAttemptsRaise(answers, chunk_duration) ==
    /\ Len(answers) = MAX_RETRIES
    /\ \A a \in 1..MAX_RETRIES : AttemptRaises(answers[a], chunk_duration)

TopicEntriesOf(filename) == SelectSeq(segment_json, LAMBDA x : x.filename = filename)
InteractionEntriesOf(filename) == SelectSeq(interaction_segments, LAMBDA x : x.filename = filename)

\* C7: a chunk whose topic call failed on every attempt contributes exactly one
\* topic entry, titled Unknown, from local 0 to the chunk duration; a chunk
\* whose interaction call failed on every attempt contributes no interaction
\* entry; the loop goes on, and when create_segment_json returns every
\* transcribed chunk has been analysed.
C7_FailedAnalysisFallsBack ==
    /\ \A r \in LogSet :
           LET d == DurationOf(r.filename)
               k == ChunkOf(r.filename)
           IN  /\ AllAttemptsRaise(r.topic_answers, d)
                      => /\ Len(TopicEntriesOf(r.filename)) = 1
                         /\ TopicEntriesOf(r.filename)[1].title = "Unknown"
                         /\ TopicEntriesOf(r.filename)[1].start_time = (k - 1) * 600
                         /\ TopicEntriesOf(r.filename)[1].end_time = (k - 1) * 600 + d
               /\ AllAttemptsRaise(r.interaction_answers, d)
                      => InteractionEntriesOf(r.filename) = <<>>
    /\ seg_pc = "returned"
           => \A k \in 1..Len(audio_files) :
                  (~audio_files[k].error /\ audio_files[k].segments # <<>>)
                      => \E r \in LogSet : r.filename = audio_files[k].filename

\* Both calls of chunk 1 failed three times and chunk 2 was analysed afterwards.
C7_Witness ==
    /\ seg_pc = "returned"
    /\ Len(gpt_log) = 2
    /\ gpt_log[1].topic_answers = <<ApiError, ApiError, ApiError>>
    /\ gpt_log[1].interaction_answers = <<ApiError, ApiError, ApiError>>
    /\ Len(TopicEntriesOf(gpt_log[1].filename)) = 1
    /\ TopicEntriesOf(gpt_log[2].filename) # <<>>

\* The answer of the attempt analyse_topic_gpt returned on gave no usable
\* topic: it was no JSON, no array, or an array none of whose items passed the
\* validation.
FinalTopicAnswer(r) == r.topic_answers[r.topic_calls]
NoUsableTopic(r) ==
    LET answer == FinalTopicAnswer(r)
        d == DurationOf(r.filename)
    IN  \/ answer.kind \in {"not_json", "not_list"}
        \/ /\ answer.kind = "list"
           /\ \A i \in 1..Len(answer.items) :
                  ItemVerdict(answer.items[i], d) \in {"False", "skipped"}

\* C40: every analysed chunk contributes at least one topic entry, and a
\* chunk whose classifier answer was unparsable, no array, or an array whose
\* items were all rejected contributes exactly one, titled Unknown, from local
\* 00:00 to the chunk duration.
C40_EveryAnalysedChunkHasATopicEntry ==
    \A r \in LogSet :
        LET entries == TopicEntriesOf(r.filename)
            d == DurationOf(r.filename)
        IN  /\ Len(entries) >= 1
            /\ NoUsableTopic(r) =>
                   /\ Len(entries) = 1
                   /\ entries[1].title = "Unknown"
                   /\ entries[1].start = <<"0", "0", ":", "0", "0">>
                   /\ entries[1].start_time = entries[1].end_time - d
                   /\ entries[1].end_time =
                          global_start_offset(entries[1].chunk_number, d) + d

\* The first chunk was answered with text that is no JSON, the second with an
\* array whose seven items were all rejected; each has its one Unknown entry.
C40_Witness ==
    /\ seg_pc = "returned"
    /\ Len(gpt_log) = 2
    /\ gpt_log[1].topic_answers = <<NotJson>>
    /\ FinalTopicAnswer(gpt_log[2]).kind = "list"
    /\ Len(FinalTopicAnswer(gpt_log[2]).items) = 7
    /\ NoUsableTopic(gpt_log[2])
    /\ Len(segment_json) = 2
    /\ segment_json[2].title = "Unknown"

(***************************************************************************)
(* modal_app.chunk_audio (main.chunk_audio and                             *)
(* script_trimmer.chunk_audio_file run the same loop)                      *)
(***************************************************************************)
CHUNK_DURATION_MINUTES == 10
MaxHalfMinutes == 50

\* len(audio) in milliseconds: every half minute up to the bound, and 1 ms more.
AudioLengths == {h * 30000 + e : h \in 0..MaxHalfMinutes, e \in {0, 1}}
\* chunk_duration_minutes: the value every caller passes, and one minute.
ChunkMinuteChoices == {1, CHUNK_DURATION_MINUTES}

\* chunk_duration_ms = chunk_duration_minutes * 60 * 1000
ChunkDurationMs(minutes) == minutes * 60 * 1000

\* total_chunks = (total_duration + chunk_duration_ms - 1) // chunk_duration_ms
TotalChunks(total, chunk_duration_ms) == (total + chunk_duration_ms - 1) \div chunk_duration_ms

Min(a, b) == IF a <= b THEN a ELSE b

ChunkEnd_unclamped(start_time, chunk_duration_ms, total) == start_time + chunk_duration_ms

\* end_time = min(start_time + chunk_duration_ms, total_duration)
ChunkEnd(start_time, chunk_duration_ms, total) == Min(start_time + chunk_duration_ms, total)

InitChunkVars ==
    /\ total_duration \in AudioLengths
    /\ chunk_duration_minutes \in ChunkMinuteChoices
    /\ range_pos = 0
    /\ chunk_files = <<>>
    /\ chunk_pc = "loop"

\* One iteration of `for i, start_time in enumerate(range(0, total_duration,
\* chunk_duration_ms))`: the chunk audio[start_time:end_time] is exported.
ExportChunk ==
    /\ chunk_pc = "loop"
    /\ range_pos < total_duration
    /\ LET i == Len(chunk_files)
           chunk_duration_ms == ChunkDurationMs(chunk_duration_minutes)
       IN  /\ chunk_files' = Append(chunk_files,
                  [filename   |-> ChunkFilename(i + 1),
                   start_time |-> range_pos,
                   end_time   |-> ChunkEnd(range_pos, chunk_duration_ms, total_duration)])
           /\ range_pos' = range_pos + chunk_duration_ms
    /\ UNCHANGED <<total_duration, chunk_duration_minutes, chunk_pc, notChunkVars>>

\* The range is exhausted: return chunk_files.
ReturnChunks ==
    /\ chunk_pc = "loop"
    /\ range_pos >= total_duration
    /\ chunk_pc' = "returned"
    /\ UNCHANGED <<total_duration, chunk_duration_minutes, range_pos, chunk_files,
                   notChunkVars>>

InitChunk == InitChunkVars /\ IdleSegVars /\ IdleJobVars /\ IdleCutVars /\ IdleYtVars /\ IdleSanVars /\ IdleTrVars /\ IdleUpVars /\ IdleStVars /\ IdleCjVars /\ IdleMdVars /\ IdleNmVars /\ IdleExVars /\ IdleMuVars /\ IdleLaVars
NextChunk == ExportChunk \/ ReturnChunks
SpecChunk == InitChunk /\ [][NextChunk]_vars

\* ceil(L / D) for L >= 0, D > 0.
CeilDiv(L, D) == CHOOSE n \in 0..L : n * D >= L /\ (n = 0 \/ (n - 1) * D < L)

\* C3: chunk_audio on an audio of length L with chunk length D returns exactly
\* ceil(L/D) chunks, numbered in order; every chunk but the last spans exactly
\* D, the last spans L - (n-1)*D, and the chunks are contiguous, do not overlap
\* and cover [0, L).
C3_ChunksPartitionAudio ==
    chunk_pc = "returned" =>
        LET L == total_duration
            D == ChunkDurationMs(chunk_duration_minutes)
            n == Len(chunk_files)
        IN  /\ n = CeilDiv(L, D)
            /\ n = TotalChunks(L, D)
            /\ \A k \in 1..n :
                   /\ ChunkNumberOf(chunk_files[k].filename) = k
                   /\ chunk_files[k].start_time = (k - 1) * D
                   /\ k < n => chunk_files[k].end_time - chunk_files[k].start_time = D
                   /\ k = n => chunk_files[k].end_time - chunk_files[k].start_time = L - (n - 1) * D
                   /\ k < n => chunk_files[k + 1].start_time = chunk_files[k].end_time
                   /\ chunk_files[k].end_time > chunk_files[k].start_time
            /\ n > 0 => (chunk_files[1].start_time = 0 /\ chunk_files[n].end_time = L)

\* L = 1500 s, D = 600 s: three chunks of 600, 600 and 300 s.
C3_Witness ==
    /\ chunk_pc = "returned"
    /\ total_duration = 1500000
    /\ chunk_duration_minutes = 10
    /\ Len(chunk_files) = 3
    /\ chunk_files[3].end_time - chunk_files[3].start_time = 300000

(***************************************************************************)
(* modal_app.process_video_background and send_progress_update             *)
(***************************************************************************)
MaxJobChunks == 2

None == "None"
NoException == ""

\* hash_s3_url: the md5 digest of the url, kept symbolic.
hash_s3_url(s3_url) == <<"md5", s3_url>>

\* update_data of send_progress_update; progress and error are present only
\* when given (the timestamp is left out).
RunningUpdate(s3_url, message, progress) ==
    [s3_url |-> s3_url, status |-> "running", message |-> message, progress |-> progress]
FailedUpdate(s3_url, e) ==
    [s3_url |-> s3_url, status |-> "failed", message |-> "Processing failed: " \o e, error |-> e]

\* The queue and the dropped updates after send_progress_update(update):
\* progress_queue.put either succeeds or raises, and a raise is only logged.
send_progress_update(channel, update, put_ok) ==
    IF put_ok
    THEN [queue  |-> Append(channel.queue, <<hash_s3_url(update.s3_url), update>>),
          errors |-> channel.errors]
    ELSE [queue  |-> channel.queue,
          errors |-> Append(channel.errors, update)]

Channel == [queue |-> progress_queue, errors |-> put_errors]

OuterExcept_silent(channel, s3_url, e, put_ok) == channel

\* The handler of the outer try: one failed update carrying str(e).
OuterExcept(channel, s3_url, e, put_ok) ==
    send_progress_update(channel, FailedUpdate(s3_url, e), put_ok)

CheckpointExcept_reraise(e) == e

\* The handler of the checkpoint try: the exception is logged and dropped.
CheckpointExcept(e) == NoException

\* run_video_segment_extraction: [] when create_video_segments raises or
\* reports no success, the files found in video_segments otherwise.
ExtractionOutcomes == {"raises", "no success", "segments"}
run_video_segment_extraction(outcome) ==
    IF outcome = "segments"
    THEN <<"video_segments/001_A.mp4", "video_segments/interactions/001_Q.mp4">>
    ELSE <<>>

\* ---- inputs ----
JobUrls == {"s3://bucket/a.mp4", "s3://bucket/b.mp4"}
DownloadedPath == "uploads/a.mp4"

\* processing_checkpoint.json when the run starts: no file, a file json.load
\* cannot read, or a record (its video_path key may be missing).
CheckpointStages == {"transcription_completed", "video_segments_completed", "start"}
CheckpointFiles ==
    {[state |-> "absent"], [state |-> "corrupt"]}
    \cup {[state |-> "record", s3_url |-> u, stage |-> st, video_path |-> v] :
             u \in JobUrls, st \in CheckpointStages, v \in {None, DownloadedPath}}

TranscribeTypeError ==
    "transcribe_audio_segments() got an unexpected keyword argument 'video_type'"
DownloadError == "Failed to download video from S3"
FFmpegError == "FFmpeg error: stderr"
ChunkError == "Error chunking audio"
TranscriptionError == "Transcription failed: " \o TranscribeTypeError

\* The files of the working directory the run reads or removes.
Disk == [checkpoint |-> checkpoint_file, segments_json |-> segments_json_file]

cleanup_previous_files_all_json(disk) ==
    [checkpoint |-> [state |-> "absent"], segments_json |-> FALSE]

\* cleanup_previous_files: transcriptions.json, segments.json and
\* processing_status.json are deleted (and the files of /data/output and
\* /data/video_segments); processing_checkpoint.json is not on its list.
cleanup_previous_files(disk) ==
    [checkpoint |-> disk.checkpoint, segments_json |-> FALSE]

InitJobVars ==
    /\ pc = "check_checkpoint"
    /\ job_url \in JobUrls
    /\ checkpoint_file \in CheckpointFiles
    /\ progress_queue = <<>>
    /\ put_errors = <<>>
    /\ all_segments = <<>>
    /\ video_path = None
    /\ returncode = 0
    /\ job_chunk_files = <<>>
    /\ segments_json_file \in BOOLEAN

\* Lines 1792-1816: the checkpoint is read; a record for this s3_url with
\* stage transcription_completed announces 85 and runs the segment
\* extraction on the recorded video, one with stage video_segments_completed
\* announces 95. Whatever happened, the run goes on with the clean-up.
BGCheckCheckpoint ==
    /\ pc = "check_checkpoint"
    /\ \E put_ok \in BOOLEAN, outcome \in ExtractionOutcomes :
         \* create_video_segments reports no success when segments.json is missing
         /\ outcome = "segments" => segments_json_file
         /\ LET cp == checkpoint_file
                matches == cp.state = "record" /\ cp.s3_url = job_url
                resumed == matches /\ cp.stage = "transcription_completed"
                uploaded == matches /\ cp.stage = "video_segments_completed"
                raised ==
                    IF cp.state = "corrupt" THEN "Expecting value"
                    ELSE IF resumed /\ cp.video_path = None
                         THEN "expected str, bytes or os.PathLike object, not NoneType"
                         ELSE NoException
                escaped == CheckpointExcept(raised)
                announced ==
                    IF resumed
                    THEN send_progress_update(Channel,
                             RunningUpdate(job_url, "Transcription completed, extracting video segments...", 85),
                             put_ok)
                    ELSE IF uploaded
                    THEN send_progress_update(Channel,
                             RunningUpdate(job_url, "Video segments completed, uploading to S3...", 95),
                             put_ok)
                    ELSE Channel
                after == IF escaped = NoException THEN announced
                         ELSE OuterExcept(announced, job_url, escaped, put_ok)
            IN  /\ progress_queue' = after.queue
                /\ put_errors' = after.errors
                /\ video_path' = IF resumed /\ raised = NoException THEN cp.video_path ELSE video_path
                /\ all_segments' = IF resumed /\ raised = NoException
                                   THEN run_video_segment_extraction(outcome)
                                   ELSE all_segments
                /\ pc' = IF escaped = NoException THEN "start" ELSE "done"
    /\ UNCHANGED <<job_url, checkpoint_file, returncode, job_chunk_files,
                   segments_json_file, notJobVars>>

\* Lines 1818-1829: cleanup_previous_files, update 5, the directories,
\* update 15.
BGStart ==
    /\ pc = "start"
    /\ \E ok1 \in BOOLEAN, ok2 \in BOOLEAN :
         LET first == send_progress_update(Channel,
                          RunningUpdate(job_url, "Starting video processing...", 5), ok1)
             second == send_progress_update(first,
                          RunningUpdate(job_url, "Downloading video from S3...", 15), ok2)
             cleaned == cleanup_previous_files(Disk)
         IN  /\ progress_queue' = second.queue
             /\ put_errors' = second.errors
             /\ checkpoint_file' = cleaned.checkpoint
             /\ segments_json_file' = cleaned.segments_json
    /\ pc' = "download"
    /\ UNCHANGED <<job_url, all_segments, video_path, returncode,
                   job_chunk_files, notJobVars>>

\* Lines 1831-1836: download_video_from_s3 returns a path or None.
BGDownload ==
    /\ pc = "download"
    /\ \E downloaded \in {None, DownloadedPath}, put_ok \in BOOLEAN :
         LET after == IF downloaded = None
                      THEN OuterExcept(Channel, job_url, DownloadError, put_ok)
                      ELSE send_progress_update(Channel,
                               RunningUpdate(job_url, "Extracting audio...", 30), put_ok)
         IN  /\ video_path' = downloaded
             /\ progress_queue' = after.queue
             /\ put_errors' = after.errors
             /\ pc' = IF downloaded = None THEN "done" ELSE "extract_audio"
    /\ UNCHANGED <<job_url, checkpoint_file, all_segments, returncode, job_chunk_files,
                   segments_json_file, notJobVars>>

\* Lines 1838-1857: the ffmpeg run and its return code.
BGExtractAudio ==
    /\ pc = "extract_audio"
    /\ \E rc \in {0, 1}, put_ok \in BOOLEAN :
         LET after == IF rc /= 0
                      THEN OuterExcept(Channel, job_url, FFmpegError, put_ok)
                      ELSE send_progress_update(Channel,
                               RunningUpdate(job_url, "Processing audio chunks...", 50), put_ok)
         IN  /\ returncode' = rc
             /\ progress_queue' = after.queue
             /\ put_errors' = after.errors
             /\ pc' = IF rc /= 0 THEN "done" ELSE "chunk"
    /\ UNCHANGED <<job_url, checkpoint_file, all_segments, video_path, job_chunk_files,
                   segments_json_file, notJobVars>>

\* Lines 1859-1876: an audio above MAX_AUDIO_SIZE_MB is cut by chunk_audio
\* (which re-raises its errors), a smaller one is its own single chunk.
BGChunk ==
    /\ pc = "chunk"
    /\ \E exceeds \in BOOLEAN, raises \in BOOLEAN, n \in 1..MaxJobChunks, put_ok \in BOOLEAN :
         /\ ~exceeds => (~raises /\ n = 1)
         /\ raises => n = 1
         /\ LET files == IF ~exceeds THEN <<UnchunkedFilename>>
                         ELSE IF raises THEN job_chunk_files
                         ELSE [k \in 1..n |-> ChunkFilename(k)]
                after == IF raises
                         THEN OuterExcept(Channel, job_url, ChunkError, put_ok)
                         ELSE send_progress_update(Channel,
                                  RunningUpdate(job_url, "Transcribing audio...", 70), put_ok)
            IN  /\ job_chunk_files' = files
                /\ progress_queue' = after.queue
                /\ put_errors' = after.errors
                /\ pc' = IF raises THEN "done" ELSE "transcribe"
    /\ UNCHANGED <<job_url, checkpoint_file, all_segments, video_path, returncode,
                   segments_json_file, notJobVars>>

\* Lines 1878-1906: transcribe_audio_segments is called with the keyword
\* video_type, which its signature (output_dir, language) does not take: the
\* call raises TypeError, re-raised as "Transcription failed: ...".
BGTranscribe ==
    /\ pc = "transcribe"
    /\ \E put_ok \in BOOLEAN :
         LET after == OuterExcept(Channel, job_url, TranscriptionError, put_ok)
         IN  /\ progress_queue' = after.queue
             /\ put_errors' = after.errors
    /\ pc' = "done"
    /\ UNCHANGED <<job_url, checkpoint_file, all_segments, video_path, returncode,
                   job_chunk_files, segments_json_file, notJobVars>>

InitJob == InitJobVars /\ IdleSegVars /\ IdleChunkVars /\ IdleCutVars /\ IdleYtVars /\ IdleSanVars /\ IdleTrVars /\ IdleUpVars /\ IdleStVars /\ IdleCjVars /\ IdleMdVars /\ IdleNmVars /\ IdleExVars /\ IdleMuVars /\ IdleLaVars
NextJob ==
    \/ BGCheckCheckpoint
    \/ BGStart
    \/ BGDownload
    \/ BGExtractAudio
    \/ BGChunk
    \/ BGTranscribe
SpecJob == InitJob /\ [][NextJob]_vars
\* The function runs on until it returns.
FairSpecJob == SpecJob /\ WF_vars(NextJob)

(***************************************************************************)
(* Properties of process_video_background                                  *)
(***************************************************************************)
\* The updates on the queue, oldest first, and every update handed to
\* send_progress_update whether its put succeeded or not.
QueuedUpdates == [i \in 1..Len(progress_queue) |-> progress_queue[i][2]]
IssuedUpdates ==
    {QueuedUpdates[i] : i \in 1..Len(QueuedUpdates)}
    \cup {put_errors[i] : i \in 1..Len(put_errors)}
IsTerminal(u) == u.status \in {"completed", "failed"}
TerminalsIn(updates) == {i \in 1..Len(updates) : IsTerminal(updates[i])}

\* The stage a progress value announces (the lower bounds of the stage bands),
\* by its position in acquiring, extracting_audio, chunking, transcribing,
\* analyzing, extracting_segments, publishing, completed.
StageRank(progress) ==
    CASE progress \in {5, 15} -> 1
      [] progress = 30 -> 2
      [] progress = 50 -> 3
      [] progress = 70 -> 4
      [] progress = 85 -> 6
      [] progress = 95 -> 7
      [] progress = 100 -> 8

\* C8: the stages of a run of process_video_background are entered only in
\* the forward order, also in a run that starts from an existing checkpoint:
\* of two stage announcements of a run, the later one never names an earlier
\* stage.
C8_StagesOnlyForward ==
    \A i, j \in 1..Len(QueuedUpdates) :
        (i < j /\ QueuedUpdates[i].status = "running" /\ QueuedUpdates[j].status = "running")
            => StageRank(QueuedUpdates[i].progress) <= StageRank(QueuedUpdates[j].progress)

\* C9 as stated: a run that has ended has published exactly one terminal
\* update, and it is the last update on the queue.
C9_EndsPublishingOneTerminalUpdate ==
    pc = "done" =>
        /\ Cardinality(TerminalsIn(QueuedUpdates)) = 1
        /\ IsTerminal(QueuedUpdates[Len(QueuedUpdates)])

\* C9 (amended): a started run always reaches its end; it has then handed
\* exactly one terminal update (completed or failed) to send_progress_update,
\* as its last update, and that update is on the queue unless its put raised;
\* before the end no terminal update has been issued.
C9_EndsIssuingOneTerminalUpdate ==
    /\ [](pc = "done" =>
            /\ Cardinality(TerminalsIn(QueuedUpdates)) + Cardinality(TerminalsIn(put_errors)) = 1
            /\ TerminalsIn(QueuedUpdates) \subseteq {Len(QueuedUpdates)}
            /\ TerminalsIn(put_errors) \subseteq {Len(put_errors)})
    /\ [](pc /= "done" => \A u \in IssuedUpdates : ~IsTerminal(u))
    /\ <>(pc = "done")

\* A run that got as far as the transcription and whose six updates all
\* reached the queue, the failed one last.
C9_Witness ==
    /\ pc = "done"
    /\ Len(QueuedUpdates) = 6
    /\ QueuedUpdates[6].status = "failed"
    /\ QueuedUpdates[5].status = "running"

\* C10 as stated: a run ends failed only if the acquisition failed or the
\* transcription produced no usable chunk.
C10_FailsOnlyOnAcquisitionOrNoChunks ==
    \A u \in IssuedUpdates :
        u.status = "failed" => u.error \in {DownloadError, TranscriptionError}

\* C10 (amended): a run ends failed only if the download returned no file,
\* ffmpeg exited non-zero, chunk_audio raised, or the transcription and
\* analysis step raised; an unreadable checkpoint and a failed segment
\* extraction never end it failed.
C10_FailsOnlyOnFatalSteps ==
    \A u \in IssuedUpdates :
        u.status = "failed" =>
            \/ u.error = DownloadError /\ video_path = None
            \/ u.error = FFmpegError /\ video_path /= None /\ returncode /= 0
            \/ u.error = ChunkError /\ returncode = 0 /\ video_path /= None
            \/ u.error = TranscriptionError /\ job_chunk_files /= <<>>

\* A run that started with an unreadable checkpoint and ended failed in the
\* audio extraction.
C10_Witness ==
    /\ pc = "done"
    /\ checkpoint_file.state = "corrupt"
    /\ \E u \in IssuedUpdates : u.status = "failed" /\ u.error = FFmpegError

(***************************************************************************)
(* Properties of the checkpoint handling of process_video_background       *)
(***************************************************************************)
\* The checkpoint the run found when it started names the run's own source.
CheckpointMatches ==
    checkpoint_file.state = "record" /\ checkpoint_file.s3_url = job_url
IssuedProgress == {u.progress : u \in {v \in IssuedUpdates : v.status = "running"}}
RecomputingSteps == {"download", "extract_audio", "chunk", "transcribe"}

\* C15: a run that starts with a checkpoint of its own source resumes at the
\* recorded stage: after transcription_completed it does no acquisition, audio
\* extraction, chunking or transcription again, and after
\* video_segments_completed it goes on from publishing.
C15_ResumesAtRecordedStage ==
    (CheckpointMatches
        /\ checkpoint_file.stage \in {"transcription_completed", "video_segments_completed"})
    => /\ pc \notin RecomputingSteps
       /\ IssuedProgress \cap {5, 15, 30, 50, 70} = {}

\* C17: a checkpoint file that cannot be read does not fail the run: it is
\* ignored, nothing is resumed, and the run goes through the pipeline from
\* its first stage (clean-up, updates 5 and 15, download, ...).
C17_CorruptCheckpointIsIgnored ==
    checkpoint_file.state = "corrupt" =>
        /\ \A u \in IssuedUpdates :
               u.status = "failed" =>
                   u.error \in {DownloadError, FFmpegError, ChunkError, TranscriptionError}
        /\ IssuedProgress \cap {85, 95} = {}
        /\ all_segments = <<>>
        /\ pc \notin {"check_checkpoint", "start"} =>
               (\E u \in IssuedUpdates : u.status = "running" /\ u.progress = 5)
        /\ pc \in {"extract_audio", "chunk", "transcribe"} => video_path /= None
        /\ (\E u \in IssuedUpdates : u.status = "failed" /\ u.error = TranscriptionError)
               => IssuedProgress = {5, 15, 30, 50, 70}

\* A run that started with an unreadable checkpoint and went through every
\* stage up to the transcription, all updates reaching the queue.
C17_Witness ==
    /\ pc = "done"
    /\ checkpoint_file.state = "corrupt"
    /\ Len(QueuedUpdates) = 6
    /\ QueuedUpdates[1].progress = 5
    /\ QueuedUpdates[6].status = "failed"
    /\ QueuedUpdates[6].error = TranscriptionError

\* C19: the checkpoint record is removed only by a run that reaches
\* completed: no step of a run that has not published completed changes or
\* removes processing_checkpoint.json, so a failed run leaves it in place.
C19_CheckpointKeptUnlessCompleted ==
    [][(checkpoint_file' /= checkpoint_file)
          => (\E u \in IssuedUpdates' : u.status = "completed")]_vars

\* A failed run that went through the clean-up with a checkpoint record on
\* disk, which is still there (segments.json is gone).
C19_Witness ==
    /\ pc = "done"
    /\ checkpoint_file.state = "record"
    /\ ~segments_json_file
    /\ \E u \in IssuedUpdates : u.status = "failed" /\ u.error = DownloadError


(***************************************************************************)
(* extract_video_segments.py: sanitize_filename, format_time,              *)
(* extract_video_segment, create_video_segments                            *)
(***************************************************************************)
MaxCutEntries == 3

\* The characters removed by re.sub(r'[<>:"/\\|?*]', '', filename).
InvalidFilenameChars == {"<", ">", ":", "\"", "/", "\\", "|", "?", "*"}
KeepChar(c) == c \notin InvalidFilenameChars

sanitize_filename_keep_spaces(filename) ==
    LET removed == SelectSeq(filename, KeepChar)
    IN  IF Len(removed) > 100 THEN SubSeq(removed, 1, 100) ELSE removed

\* sanitize_filename(filename) for a str (re.sub raises TypeError for any other value).
sanitize_filename(filename) ==
    LET removed  == SelectSeq(filename, KeepChar)
        replaced == [k \in 1..Len(removed) |-> IF removed[k] = " " THEN "_" ELSE removed[k]]
    IN  IF Len(replaced) > 100 THEN SubSeq(replaced, 1, 100) ELSE replaced

\* format_time(seconds): f"{hours:02d}:{minutes:02d}:{secs:02d}"
format_time(seconds) ==
    Pad2(seconds \div 3600) \o <<":">> \o Pad2((seconds % 3600) \div 60)
        \o <<":">> \o Pad2(seconds % 60)

OUTPUT_DIR == "video_segments"
INTERACTION_OUTPUT_DIR == "video_segments/interactions"

\* One entry of segments.json, with the keys create_video_segments reads.
CutEntry(type, title, start, end, itype) ==
    [segment_type |-> type, title |-> title, start_time |-> start, end_time |-> end,
     interaction_type |-> itype]

EntryTopic     == CutEntry("topic", <<"A", " ", "b", "?">>, 0, 60, Absent)
EntryZeroLen   == CutEntry("topic", <<"U", "n", "k", "n", "o", "w", "n">>, 600, 600, Absent)
EntryNullTitle == CutEntry("topic", JsonNull, 60, 120, Absent)
EntryQuestion  == CutEntry("interaction", <<"Q", ":", "1">>, 10, 20, <<"q", "a">>)
EntryReversed  == CutEntry("interaction", <<"R">>, 30, 20, Absent)
CutEntries == {EntryTopic, EntryZeroLen, EntryNullTitle, EntryQuestion, EntryReversed}

SegmentLists == UNION {[1..n -> CutEntries] : n \in 0..MaxCutEntries}
GivenVideo == "uploads/lecture.mp4"
FoundVideo == "uploads/found.mp4"

IsInteraction(segment) == segment.segment_type = "interaction"
IsRegular(segment) == ~IsInteraction(segment)

InitCutVars ==
    /\ cut_pc = "start"
    /\ segments_file \in {[exists |-> FALSE, segments |-> <<>>]}
                            \cup {[exists |-> TRUE, segments |-> l] : l \in SegmentLists}
    /\ video_arg \in {None, GivenVideo}
    /\ ORIGINAL_VIDEO = None
    /\ regular_segments = <<>>
    /\ cut_interactions = <<>>
    /\ loop_i = 1
    /\ cut_log = <<>>
    /\ successful_extractions = 0
    /\ failed_extractions = 0
    /\ interaction_extractions = 0
    /\ interaction_failures = 0
    /\ cut_result = None

\* Where control is once the regular loop stands at index i / the interaction loop at i.
AtRegular(regular, interactions, i) ==
    IF i <= Len(regular) THEN "regular"
    ELSE IF Len(interactions) >= 1 THEN "interaction" ELSE "summary"
AtInteraction(interactions, i) ==
    IF i <= Len(interactions) THEN "interaction" ELSE "summary"

\* One record of cut_log.
Visit(kind, i, segment, outcome, success, dir, name) ==
    [kind |-> kind, index |-> i, segment |-> segment, outcome |-> outcome,
     success |-> success, dir |-> dir, filename |-> name,
     ss |-> IF outcome = "cut" THEN format_time(segment.start_time) ELSE <<>>,
     t  |-> IF outcome = "cut"
            THEN format_time(segment.end_time - segment.start_time) ELSE <<>>]

\* Lines 85-133: the two early returns, the load and the separation by segment_type.
CutStart ==
    /\ cut_pc = "start"
    /\ IF ~segments_file.exists
       THEN /\ cut_result' = "False"
            /\ cut_pc' = "returned"
            /\ UNCHANGED <<ORIGINAL_VIDEO, regular_segments, cut_interactions>>
       ELSE \E found \in {None, FoundVideo} :
                LET original == IF video_arg # None THEN video_arg ELSE found
                    regular == SelectSeq(segments_file.segments, IsRegular)
                    interactions == SelectSeq(segments_file.segments, IsInteraction)
                IN  /\ ORIGINAL_VIDEO' = original
                    /\ IF original = None
                       THEN /\ cut_result' = "False"
                            /\ cut_pc' = "returned"
                            /\ UNCHANGED <<regular_segments, cut_interactions>>
                       ELSE /\ regular_segments' = regular
                            /\ cut_interactions' = interactions
                            /\ cut_pc' = AtRegular(regular, interactions, 1)
                            /\ cut_result' = cut_result
    /\ UNCHANGED <<segments_file, video_arg, loop_i, cut_log, successful_extractions,
                   failed_extractions, interaction_extractions, interaction_failures,
                   notCutVars>>

\* Lines 136-161: one iteration of the loop over regular_segments.
CutRegular ==
    /\ cut_pc = "regular"
    /\ LET i == loop_i
           segment == regular_segments[i]
           topic_title == DictGet(segment.title,
                              <<"U", "n", "k", "n", "o", "w", "n", "_", "T", "o", "p", "i", "c", "_">>
                                  \o IntToStr(i))
       IN  IF segment.start_time >= segment.end_time
           THEN /\ failed_extractions' = failed_extractions + 1
                /\ cut_log' = Append(cut_log,
                       Visit("regular", i, segment, "skipped", FALSE, OUTPUT_DIR, <<>>))
                /\ loop_i' = IF i < Len(regular_segments) THEN i + 1 ELSE 1
                /\ cut_pc' = AtRegular(regular_segments, cut_interactions, i + 1)
                /\ UNCHANGED <<successful_extractions, cut_result>>
           ELSE IF ~IsStr(topic_title)
           THEN /\ cut_log' = Append(cut_log,
                       Visit("regular", i, segment, "raised", FALSE, OUTPUT_DIR, <<>>))
                /\ cut_pc' = "raised"
                /\ cut_result' = "TypeError"
                /\ UNCHANGED <<loop_i, successful_extractions, failed_extractions>>
           ELSE \E success \in BOOLEAN :
                    LET output_filename == Pad2(i) \o <<"_">> \o sanitize_filename(topic_title)
                                               \o <<".", "m", "p", "4">>
                    IN  /\ cut_log' = Append(cut_log,
                               Visit("regular", i, segment, "cut", success, OUTPUT_DIR,
                                     output_filename))
                        /\ successful_extractions' =
                               successful_extractions + (IF success THEN 1 ELSE 0)
                        /\ failed_extractions' =
                               failed_extractions + (IF success THEN 0 ELSE 1)
                        /\ loop_i' = IF i < Len(regular_segments) THEN i + 1 ELSE 1
                        /\ cut_pc' = AtRegular(regular_segments, cut_interactions, i + 1)
                        /\ cut_result' = cut_result
    /\ UNCHANGED <<segments_file, video_arg, ORIGINAL_VIDEO, regular_segments,
                   cut_interactions, interaction_extractions, interaction_failures,
                   notCutVars>>

\* Lines 164-190: one iteration of the loop over interaction_segments.
CutInteraction ==
    /\ cut_pc = "interaction"
    /\ LET i == loop_i
           segment == cut_interactions[i]
           topic_title == DictGet(segment.title,
                              <<"U", "n", "k", "n", "o", "w", "n", "_", "I", "n", "t", "e", "r",
                                "a", "c", "t", "i", "o", "n", "_">> \o IntToStr(i))
           interaction_type == DictGet(segment.interaction_type,
                                       <<"U", "n", "k", "n", "o", "w", "n">>)
       IN  IF segment.start_time >= segment.end_time
           THEN /\ interaction_failures' = interaction_failures + 1
                /\ cut_log' = Append(cut_log,
                       Visit("interaction", i, segment, "skipped", FALSE,
                             INTERACTION_OUTPUT_DIR, <<>>))
                /\ loop_i' = i + 1
                /\ cut_pc' = AtInteraction(cut_interactions, i + 1)
                /\ UNCHANGED <<interaction_extractions, cut_result>>
           ELSE IF ~IsStr(topic_title)
           THEN /\ cut_log' = Append(cut_log,
                       Visit("interaction", i, segment, "raised", FALSE,
                             INTERACTION_OUTPUT_DIR, <<>>))
                /\ cut_pc' = "raised"
                /\ cut_result' = "TypeError"
                /\ UNCHANGED <<loop_i, interaction_extractions, interaction_failures>>
           ELSE \E success \in BOOLEAN :
                    LET output_filename == Pad2(i) \o <<"_">> \o interaction_type \o <<"_">>
                                               \o sanitize_filename(topic_title)
                                               \o <<".", "m", "p", "4">>
                    IN  /\ cut_log' = Append(cut_log,
                               Visit("interaction", i, segment, "cut", success,
                                     INTERACTION_OUTPUT_DIR, output_filename))
                        /\ interaction_extractions' =
                               interaction_extractions + (IF success THEN 1 ELSE 0)
                        /\ interaction_failures' =
                               interaction_failures + (IF success THEN 0 ELSE 1)
                        /\ loop_i' = i + 1
                        /\ cut_pc' = AtInteraction(cut_interactions, i + 1)
                        /\ cut_result' = cut_result
    /\ UNCHANGED <<segments_file, video_arg, ORIGINAL_VIDEO, regular_segments,
                   cut_interactions, successful_extractions, failed_extractions,
                   notCutVars>>

\* Lines 192-211: total_successful = successful_extractions + interaction_extractions.
CutSummary ==
    /\ cut_pc = "summary"
    /\ cut_result' = IF successful_extractions + interaction_extractions > 0
                     THEN "True" ELSE "False"
    /\ cut_pc' = "returned"
    /\ UNCHANGED <<segments_file, video_arg, ORIGINAL_VIDEO, regular_segments,
                   cut_interactions, loop_i, cut_log, successful_extractions,
                   failed_extractions, interaction_extractions, interaction_failures,
                   notCutVars>>

InitCut == InitCutVars /\ IdleSegVars /\ IdleChunkVars /\ IdleJobVars /\ IdleYtVars /\ IdleSanVars /\ IdleTrVars /\ IdleUpVars /\ IdleStVars /\ IdleCjVars /\ IdleMdVars /\ IdleNmVars /\ IdleExVars /\ IdleMuVars /\ IdleLaVars
NextCut == CutStart \/ CutRegular \/ CutInteraction \/ CutSummary
SpecCut == InitCut /\ [][NextCut]_vars

(***************************************************************************)
(* Properties of create_video_segments                                     *)
(***************************************************************************)
\* The call is over after having loaded segments.json and found a video.
CutWentThroughEntries ==
    /\ cut_pc \in {"returned", "raised"}
    /\ segments_file.exists
    /\ ORIGINAL_VIDEO # None

VisitsOf(kind, i) ==
    {j \in 1..Len(cut_log) : cut_log[j].kind = kind /\ cut_log[j].index = i}
FailedVisits(kind) ==
    {j \in 1..Len(cut_log) : cut_log[j].kind = kind /\ ~cut_log[j].success}

\* C20: once create_video_segments has gone through segments.json, every topic
\* entry and every interaction entry was attempted exactly once, a cut was
\* issued exactly for the entries whose end_time exceeds their start_time, and
\* every skipped entry and every failed cut is counted as failed, whatever
\* happened to the entries before it.
C20_EveryEntryAttemptedOnce ==
    CutWentThroughEntries =>
        /\ \A i \in 1..Len(regular_segments) : Cardinality(VisitsOf("regular", i)) = 1
        /\ \A i \in 1..Len(cut_interactions) : Cardinality(VisitsOf("interaction", i)) = 1
        /\ \A j \in 1..Len(cut_log) :
               (cut_log[j].outcome = "cut")
                   <=> (cut_log[j].segment.end_time > cut_log[j].segment.start_time)
        /\ failed_extractions = Cardinality(FailedVisits("regular"))
        /\ interaction_failures = Cardinality(FailedVisits("interaction"))

\* What does hold: the same, for the calls that return.
CutReturnedAttemptsEveryEntryOnce ==
    (CutWentThroughEntries /\ cut_pc = "returned") =>
        /\ \A i \in 1..Len(regular_segments) : Cardinality(VisitsOf("regular", i)) = 1
        /\ \A i \in 1..Len(cut_interactions) : Cardinality(VisitsOf("interaction", i)) = 1
        /\ \A j \in 1..Len(cut_log) :
               (cut_log[j].outcome = "cut")
                   <=> (cut_log[j].segment.end_time > cut_log[j].segment.start_time)
        /\ failed_extractions = Cardinality(FailedVisits("regular"))
        /\ interaction_failures = Cardinality(FailedVisits("interaction"))


(***************************************************************************)
(* modal_app.py: download_youtube_video and process_youtube_video          *)
(***************************************************************************)
\* len(strategies)
NUM_STRATEGIES == 3

\* The texts the download handler looks for in str(download_error).  An error
\* message is modelled by the set of these texts it contains.
BOT_SIGNATURE == "Sign in to confirm you're not a bot"
UNAVAILABLE_SIGNATURE == "Video unavailable"
DownloadErrorMessages ==
    {{BOT_SIGNATURE}, {UNAVAILABLE_SIGNATURE}, {BOT_SIGNATURE, UNAVAILABLE_SIGNATURE}, {}}
Contains(error_msg, text) == text \in error_msg

PermanentError == "Video is unavailable or private. Please check the URL and try again."
AllFailedError ==
    "All download strategies failed. This video may be restricted or require authentication."

\* Lines 582-592, the handler of the download: what it does with download_error.
DownloadExcept(error_msg) ==
    IF Contains(error_msg, BOT_SIGNATURE)
    THEN [do |-> "continue", outcome |-> "bot", raised |-> NoException]
    ELSE IF Contains(error_msg, UNAVAILABLE_SIGNATURE)
    THEN [do |-> "raise", outcome |-> "unavailable", raised |-> PermanentError]
    ELSE [do |-> "continue", outcome |-> "other", raised |-> NoException]

\* Lines 594-596, the handler around one strategy: whatever was raised inside the
\* with block is logged and the loop goes on.
StrategyExcept(e) == "continue"

\* One iteration of the loop over strategies (lines 517-596).  info is what
\* extract_info gave ("formats", "no_formats", or "raises", which is only logged),
\* download what ydl.download and the file search gave ("file", "no_file", "raises").
StrategyStep(info, download, error_msg) ==
    IF info = "no_formats" THEN [do |-> "continue", outcome |-> "no_formats"]
    ELSE IF download = "file" THEN [do |-> "return", outcome |-> "file"]
    ELSE IF download = "no_file" THEN [do |-> "continue", outcome |-> "no_file"]
    ELSE LET h == DownloadExcept(error_msg)
         IN  [do |-> IF h.do = "raise" THEN StrategyExcept(h.raised) ELSE h.do,
              outcome |-> h.outcome]

\* is_valid_youtube_url on the modelled urls: the first matches the watch?v=
\* pattern, the second matches none of the four patterns.
WatchUrl == "https://www.youtube.com/watch?v=abc"
OtherUrl == "https://example.com/v.mp4"
YoutubeUrls == {WatchUrl, OtherUrl}
is_valid_youtube_url(url) == url = WatchUrl

YoutubeVideoPath == "/data/uploads/id_youtube_video.mp4"

\* "if not video_path" of line 1359
NotVideoPath_never(path) == FALSE
NotVideoPath(path) == path = None

\* The exception that leaves process_youtube_video through its outer handler.
YtRaised(e) == [kind |-> "raised", message |-> "Error processing YouTube video: " \o e]
YtDownloadNone == "Failed to download YouTube video - download returned None"
YtFFmpegError == "Error extracting audio: FFmpeg error: stderr"
YtSuccessMessage == "YouTube video processed successfully"

\* create_segment_json(audio_files): the files with an error or without segments
\* are passed over; the classifier gives topic_answers and interaction_answers
\* for each of the others.
RECURSIVE EntriesOfFiles(_, _, _, _)
EntriesOfFiles(files, topic_answers, interaction_answers, segment_type) ==
    IF files = <<>> THEN <<>>
    ELSE LET audio_file == Head(files)
             rest == EntriesOfFiles(Tail(files), topic_answers, interaction_answers,
                                    segment_type)
         IN  IF audio_file.error \/ audio_file.segments = <<>>
             THEN rest
             ELSE LET chunk_duration == audio_file.segments[Len(audio_file.segments)].end
                      items == IF segment_type = "topic"
                               THEN analyse_topic_gpt(topic_answers, chunk_duration).topics
                               ELSE detect_speaker_student_interactions(
                                        interaction_answers, chunk_duration).interactions
                  IN  EntriesOf(items, audio_file, segment_type) \o rest

create_segment_json(files, topic_answers, interaction_answers) ==
    EntriesOfFiles(files, topic_answers, interaction_answers, "topic")
        \o EntriesOfFiles(files, topic_answers, interaction_answers, "interaction")

\* The files transcribe_audio_segments can return for the audio files on disk.
YtTranscriptions(filenames) ==
    {fs \in [1..Len(filenames) ->
                UNION {FilesNamed(filenames[k], {600}) : k \in 1..Len(filenames)}] :
        \A k \in 1..Len(filenames) : fs[k].filename = filenames[k]}

YtTopicScripts == {<<List(<<TopicA, TopicB, TopicZ>>)>>, <<ApiError, ApiError, ApiError>>}
YtInteractionScripts == {<<List(<<InterQ, InterX, InterY>>)>>, <<ApiError, ApiError, ApiError>>}

\* The entries of a timeline create_video_segments issues a cut for.
Cuttable(timeline) ==
    {i \in 1..Len(timeline) : timeline[i].start_time < timeline[i].end_time}

\* The loop of upload_video_segments_to_s3 over the list it is given: the
\* elements whose upload succeeded, in the order of the list.
RECURSIVE PickFrom(_, _, _)
PickFrom(sq, chosen, k) ==
    IF k > Len(sq) THEN <<>>
    ELSE (IF k \in chosen THEN <<sq[k]>> ELSE <<>>) \o PickFrom(sq, chosen, k + 1)

\* Path.iterdir(): the files of a directory, each once, in an order the file
\* system decides.
iterdir(files) ==
    {order \in [1..Cardinality(files) -> files] :
        \A a, b \in 1..Cardinality(files) : a # b => order[a] # order[b]}

\* The lists run_video_segment_extraction can return for the cuts that were
\* written: the files of video_segments/ as iterdir gives them, then those of
\* video_segments/interactions/ (each file stands for its timeline entry).
listed_segments(timeline, written) ==
    LET regular      == {i \in written : timeline[i].segment_type = "topic"}
        interactions == {i \in written : timeline[i].segment_type = "interaction"}
    IN  {[k \in 1..Len(regular_files \o interaction_files) |->
             timeline[(regular_files \o interaction_files)[k]]] :
            regular_files \in iterdir(regular),
            interaction_files \in iterdir(interactions)}

InitYtVars ==
    /\ yt_pc = "start"
    /\ youtube_url \in YoutubeUrls
    /\ yt_segments_json \in {[exists |-> FALSE, segments |-> <<>>],
                             [exists |-> TRUE, segments |-> <<>>]}
    /\ strategy_i = 1
    /\ strategy_log = <<>>
    /\ download_result = None
    /\ download_logged = NoException
    /\ yt_stages = <<>>
    /\ yt_chunk_files = <<>>
    /\ yt_audio_files = <<>>
    /\ yt_all_segments = <<>>
    /\ yt_s3_urls = <<>>
    /\ yt_outcome = [kind |-> "running", message |-> ""]
    /\ yt_produced = {}
    /\ yt_intermediates = {}

\* Lines 1349-1354: cleanup_previous_files, then the url check (outside the try).
YTStart ==
    /\ yt_pc = "start"
    /\ LET cleaned == cleanup_previous_files(
                          [checkpoint |-> [state |-> "absent"],
                           segments_json |-> yt_segments_json.exists])
       IN  yt_segments_json' = IF cleaned.segments_json THEN yt_segments_json
                               ELSE [exists |-> FALSE, segments |-> <<>>]
    /\ IF is_valid_youtube_url(youtube_url)
       THEN /\ yt_pc' = "download"
            /\ yt_stages' = Append(yt_stages, "download")
            /\ UNCHANGED yt_outcome
       ELSE /\ yt_pc' = "raised"
            /\ yt_outcome' = [kind |-> "raised", message |-> "Invalid YouTube URL provided"]
            /\ UNCHANGED yt_stages
    /\ UNCHANGED <<youtube_url, strategy_i, strategy_log, download_result, download_logged,
                   yt_chunk_files, yt_audio_files, yt_all_segments, yt_s3_urls, yt_produced, yt_intermediates, notYtVars>>

\* Lines 517-604: one strategy; after the last one the loop is left, the
\* exception of line 600 is logged by the outer handler and None is returned.
YTStrategy ==
    /\ yt_pc = "download"
    /\ \E info \in {"formats", "no_formats", "raises"},
          download \in {"file", "no_file", "raises"},
          error_msg \in DownloadErrorMessages :
         LET step == StrategyStep(info, download, error_msg)
         IN  /\ strategy_log' = Append(strategy_log,
                                       [strategy |-> strategy_i, outcome |-> step.outcome])
             /\ IF step.do = "return"
                THEN /\ download_result' = YoutubeVideoPath
                     /\ yt_pc' = "downloaded"
                     /\ UNCHANGED <<strategy_i, download_logged>>
                ELSE IF strategy_i < NUM_STRATEGIES
                THEN /\ strategy_i' = strategy_i + 1
                     /\ UNCHANGED <<download_result, download_logged, yt_pc>>
                ELSE /\ download_logged' = AllFailedError
                     /\ download_result' = None
                     /\ yt_pc' = "downloaded"
                     /\ UNCHANGED strategy_i
    /\ UNCHANGED <<youtube_url, yt_segments_json, yt_stages, yt_chunk_files, yt_audio_files,
                   yt_all_segments, yt_s3_urls, yt_outcome,
                   yt_produced, yt_intermediates, notYtVars>>

\* Lines 1359-1366 and the outer handler 1581-1590.
YTCheckDownload ==
    /\ yt_pc = "downloaded"
    /\ IF NotVideoPath(download_result)
       THEN /\ yt_pc' = "raised"
            /\ yt_outcome' = YtRaised(YtDownloadNone)
            /\ UNCHANGED yt_stages
       ELSE /\ yt_pc' = "extract_audio"
            /\ yt_stages' = Append(yt_stages, "extract_audio")
            /\ UNCHANGED yt_outcome
    /\ yt_produced' = IF NotVideoPath(download_result) THEN yt_produced ELSE {"video"}
    /\ yt_intermediates' = yt_produced'
    /\ UNCHANGED <<youtube_url, yt_segments_json, strategy_i, strategy_log, download_result,
                   download_logged, yt_chunk_files, yt_audio_files, yt_all_segments,
                   yt_s3_urls, notYtVars>>

\* The handler of lines 1581-1590: the video and the audio file are deleted.
error_cleanup(present) == present \ {"video", "audio"}

\* Lines 1368-1413: ffprobe, ffmpeg, and the check of its result.
YTExtractAudio ==
    /\ yt_pc = "extract_audio"
    /\ \E rc \in {0, 1}, audio_written \in BOOLEAN :
         IF rc /= 0 \/ ~audio_written
         THEN /\ yt_pc' = "raised"
              /\ yt_outcome' = YtRaised(YtFFmpegError)
              /\ yt_produced' = IF audio_written THEN yt_produced \cup {"audio"}
                                 ELSE yt_produced
              /\ yt_intermediates' = error_cleanup(yt_intermediates)
              /\ UNCHANGED yt_stages
         ELSE /\ yt_pc' = "chunk"
              /\ yt_stages' = Append(yt_stages, "chunk")
              /\ yt_produced' = yt_produced \cup {"audio"}
              /\ yt_intermediates' = yt_intermediates \cup {"audio"}
              /\ UNCHANGED yt_outcome
    /\ UNCHANGED <<youtube_url, yt_segments_json, strategy_i, strategy_log, download_result,
                   download_logged, yt_chunk_files, yt_audio_files, yt_all_segments,
                   yt_s3_urls, notYtVars>>

\* Lines 1415-1427 and 1504-1505: an audio above MAX_AUDIO_SIZE_MB is cut by
\* chunk_audio (which re-raises its errors), a smaller one stays as it is.
\* n is the number of chunks, or the number of the export that raises: the
\* chunks exported before it stay in the output directory.
YTChunk ==
    /\ yt_pc = "chunk"
    /\ \E exceeds, raises \in BOOLEAN, n \in 1..MaxJobChunks :
         /\ ~exceeds => (~raises /\ n = 1)
         /\ IF raises
            THEN /\ yt_pc' = "raised"
                 /\ yt_outcome' = YtRaised(ChunkError)
                 /\ yt_produced' = IF n > 1 THEN yt_produced \cup {"chunks"} ELSE yt_produced
                 /\ yt_intermediates' =
                        error_cleanup(IF n > 1 THEN yt_intermediates \cup {"chunks"}
                                      ELSE yt_intermediates)
                 /\ UNCHANGED <<yt_stages, yt_chunk_files>>
            ELSE /\ yt_chunk_files' = IF exceeds THEN [k \in 1..n |-> ChunkFilename(k)]
                                      ELSE <<UnchunkedFilename>>
                 \* audio_path.unlink() once the chunks are written
                 /\ yt_produced' = IF exceeds THEN yt_produced \cup {"chunks"} ELSE yt_produced
                 /\ yt_intermediates' = IF exceeds
                                        THEN (yt_intermediates \ {"audio"}) \cup {"chunks"}
                                        ELSE yt_intermediates
                 /\ yt_pc' = "transcribe"
                 /\ yt_stages' = Append(yt_stages, "transcribe")
                 /\ UNCHANGED yt_outcome
    /\ UNCHANGED <<youtube_url, yt_segments_json, strategy_i, strategy_log, download_result,
                   download_logged, yt_audio_files, yt_all_segments, yt_s3_urls, notYtVars>>

\* Lines 1429-1440 and 1507-1518: transcription, topic analysis and the write of
\* segments.json, in a try whose handler only logs.
YTTranscribe ==
    /\ yt_pc = "transcribe"
    /\ \E raises \in BOOLEAN :
         IF raises
         THEN \* an exception before or after transcriptions.json was written
              /\ \E written \in SUBSET {"transcriptions.json"} :
                     /\ yt_produced' = yt_produced \cup written
                     /\ yt_intermediates' = yt_intermediates \cup written
              /\ UNCHANGED <<yt_audio_files, yt_segments_json>>
         ELSE \E files \in YtTranscriptions(yt_chunk_files),
                 topic_answers \in YtTopicScripts,
                 interaction_answers \in YtInteractionScripts :
                  /\ yt_audio_files' = files
                  /\ yt_segments_json' =
                         [exists |-> TRUE,
                          segments |-> create_segment_json(files, topic_answers,
                                                           interaction_answers)]
                  /\ yt_produced' = yt_produced \cup {"transcriptions.json", "segments.json"}
                  /\ yt_intermediates' =
                         yt_intermediates \cup {"transcriptions.json", "segments.json"}
    /\ yt_pc' = "cut"
    /\ yt_stages' = Append(yt_stages, "cut")
    /\ UNCHANGED <<youtube_url, strategy_i, strategy_log, download_result, download_logged,
                   yt_chunk_files, yt_all_segments, yt_s3_urls, yt_outcome, notYtVars>>

\* "if all_segments:" before cleanup_intermediate_files (lines 1460, 1538)
cleans_up_intermediates(segments) == segments # <<>>

\* cleanup_intermediate_files(video_path, audio_path): transcriptions.json,
\* segments.json, the audio files of the output directory, the video and the
\* audio file are unlinked; a file whose unlink raises is left (kept).
cleanup_intermediate_files(present, kept) == present \cap kept

\* Lines 1442-1468: run_video_segment_extraction (the files of the cuts that
\* succeeded, as the two directories list them, none when
\* create_video_segments returns False), then cleanup_intermediate_files when
\* there is at least one.
YTCutSegments ==
    /\ yt_pc = "cut"
    /\ \E succeeded \in SUBSET Cuttable(yt_segments_json.segments) :
       \E created \in IF yt_segments_json.exists
                      THEN listed_segments(yt_segments_json.segments, succeeded)
                      ELSE {<<>>} :
             /\ yt_all_segments' = created
             /\ IF cleans_up_intermediates(created)
                THEN \E kept \in SUBSET yt_intermediates :
                         /\ yt_intermediates' = cleanup_intermediate_files(yt_intermediates, kept)
                         /\ yt_segments_json' = IF "segments.json" \in kept
                                                THEN yt_segments_json
                                                ELSE [exists |-> FALSE, segments |-> <<>>]
                ELSE UNCHANGED <<yt_intermediates, yt_segments_json>>
    /\ yt_pc' = "upload"
    /\ yt_stages' = Append(yt_stages, "upload")
    /\ UNCHANGED <<youtube_url, strategy_i, strategy_log, download_result, download_logged,
                   yt_chunk_files, yt_audio_files, yt_s3_urls, yt_outcome, yt_produced,
                   notYtVars>>

\* Lines 1470-1503 and 1548-1579: the upload of the segments (each may fail and
\* is then left out of s3_urls) and the returned result.
YTUploadAndReturn ==
    /\ yt_pc = "upload"
    /\ \E uploaded \in SUBSET (1..Len(yt_all_segments)) :
         yt_s3_urls' = PickFrom(yt_all_segments, uploaded, 1)
    /\ yt_outcome' = [kind |-> "returned", message |-> YtSuccessMessage]
    /\ yt_pc' = "returned"
    /\ UNCHANGED <<youtube_url, yt_segments_json, strategy_i, strategy_log, download_result,
                   download_logged, yt_stages, yt_chunk_files, yt_audio_files,
                   yt_all_segments,
                   yt_produced, yt_intermediates, notYtVars>>

InitYT == InitYtVars /\ IdleSegVars /\ IdleChunkVars /\ IdleJobVars /\ IdleCutVars /\ IdleSanVars /\ IdleTrVars /\ IdleUpVars /\ IdleStVars /\ IdleCjVars /\ IdleMdVars /\ IdleNmVars /\ IdleExVars /\ IdleMuVars /\ IdleLaVars
NextYT ==
    \/ YTStart
    \/ YTStrategy
    \/ YTCheckDownload
    \/ YTExtractAudio
    \/ YTChunk
    \/ YTTranscribe
    \/ YTCutSegments
    \/ YTUploadAndReturn
SpecYT == InitYT /\ [][NextYT]_vars

\* Acquisition from either source: a job of process_video_background or a call
\* of process_youtube_video.
InitAcquire == InitJob \/ InitYT
NextAcquire == NextJob \/ NextYT
SpecAcquire == InitAcquire /\ [][NextAcquire]_vars


(***************************************************************************)
(* Properties of the acquisition and of process_youtube_video              *)
(***************************************************************************)
StrategyFailed(j) == strategy_log[j].outcome # "file"
\* Failures the handler treats as passing ones: bot detection, any other
\* download error, no video format, no file found after the download.
TransientOutcomes == {"bot", "other", "no_formats", "no_file"}
AllStrategiesFailed ==
    /\ Len(strategy_log) = NUM_STRATEGIES
    /\ \A j \in 1..Len(strategy_log) : StrategyFailed(j)
YtEnded == yt_pc \in {"returned", "raised"}

\* C12: the strategies are invoked in list order, strategy k+1 only after
\* strategy k failed with a transient error, and none after a strategy succeeded.
C12_NextStrategyOnlyAfterTransientFailure ==
    /\ \A j \in 1..Len(strategy_log) : strategy_log[j].strategy = j
    /\ \A j \in 2..Len(strategy_log) : strategy_log[j - 1].outcome \in TransientOutcomes
    /\ \A j \in 1..(Len(strategy_log) - 1) : StrategyFailed(j)

\* C13: once a strategy's download has failed with the text "Video unavailable",
\* the acquisition is over: no further strategy is invoked, no file is returned
\* and the error of the acquisition is the permanent-failure error.
C13_PermanentFailureAbortsAcquisition ==
    \A j \in 1..Len(strategy_log) :
        strategy_log[j].outcome = "unavailable" =>
            /\ j = Len(strategy_log)
            /\ yt_pc # "download"
            /\ download_result = None
            /\ download_logged = PermanentError

\* C14: when every strategy of download_youtube_video has failed, it returns no
\* file and process_youtube_video ends by raising the download error without
\* entering audio extraction or any later stage; when download_video_from_s3
\* returns no file, process_video_background issues a failed update carrying the
\* download error and announces neither audio extraction nor a later stage.
C14_FailedAcquisitionFailsTheJob ==
    /\ AllStrategiesFailed =>
           /\ download_result = None
           /\ yt_pc \in {"downloaded", "raised"}
           /\ yt_stages = <<"download">>
           /\ yt_chunk_files = <<>> /\ yt_audio_files = <<>> /\ yt_all_segments = <<>>
           /\ YtEnded => yt_outcome = YtRaised(YtDownloadNone)
    /\ (pc = "done" /\ video_path = None) =>
           /\ \E u \in IssuedUpdates : u.status = "failed" /\ u.error = DownloadError
           /\ \A u \in IssuedUpdates : u.status # "completed"
           /\ IssuedProgress \cap {30, 50, 70} = {}
           /\ job_chunk_files = <<>>

\* A call of process_youtube_video whose three strategies failed, the last one
\* on bot detection, and which has ended.
C14_Witness ==
    /\ AllStrategiesFailed
    /\ strategy_log[NUM_STRATEGIES].outcome = "bot"
    /\ yt_pc = "raised"
    /\ yt_outcome.kind = "raised"

\* transcribe_audio_segments returned, and every file it returned has a
\* transcription error or no segments.
ZeroUsableChunks ==
    /\ yt_audio_files # <<>>
    /\ \A k \in 1..Len(yt_audio_files) :
           yt_audio_files[k].error \/ yt_audio_files[k].segments = <<>>

\* C11: a call whose transcription yielded zero usable chunks ends failed with
\* an error; it does not end successfully with empty lists of artifacts.
C11_ZeroUsableChunksFailsTheJob ==
    (YtEnded /\ ZeroUsableChunks) =>
        /\ yt_outcome.kind = "raised"
        /\ yt_outcome.message # ""


(***************************************************************************)
(* extract_video_segments.py: sanitize_filename on its own                 *)
(***************************************************************************)
MaxTitleLen == 3

\* Titles: every text of up to MaxTitleLen characters over a small alphabet
\* (a letter, a space, a tab, two of the removed characters and the separator),
\* and texts around the limit of 100 characters.
TitleChars == {"a", " ", "\t", ":", "*", "_"}
ShortTitles == UNION {[1..n -> TitleChars] : n \in 0..MaxTitleLen}
Repeat(c, n) == [k \in 1..n |-> c]
LongTitles ==
    {Repeat("a", n) : n \in {99, 100, 101, 150}}
        \cup {Repeat("a", 99) \o <<":">> \o Repeat("b", 2),
              Repeat(" ", 101),
              Repeat("?", 101) \o Repeat("a", 100)}
Titles == ShortTitles \cup LongTitles

InitSanVars ==
    /\ san_pc = "call"
    /\ san_title \in Titles
    /\ san_result = <<>>

SanitizeCall ==
    /\ san_pc = "call"
    /\ san_result' = sanitize_filename(san_title)
    /\ san_pc' = "returned"
    /\ UNCHANGED <<san_title, notSanVars>>

InitSan == InitSanVars /\ IdleSegVars /\ IdleChunkVars /\ IdleJobVars /\ IdleCutVars
               /\ IdleYtVars /\ IdleTrVars /\ IdleUpVars /\ IdleStVars /\ IdleCjVars /\ IdleMdVars /\ IdleNmVars /\ IdleExVars /\ IdleMuVars /\ IdleLaVars
NextSan == SanitizeCall
SpecSan == InitSan /\ [][NextSan]_vars

\* Whitespace of a title, and the maximal runs of it.
Whitespace == {" ", "\t"}
IsRunStart(s, k) == s[k] \in Whitespace /\ (k = 1 \/ s[k - 1] \notin Whitespace)
WhitespaceRuns(s) == Cardinality({k \in 1..Len(s) : IsRunStart(s, k)})
Separators(s) == Cardinality({k \in 1..Len(s) : s[k] = "_"})
TitleUnderscores == Separators(san_title)

\* C30: the returned name contains none of the characters illegal in file
\* names, stands for every run of whitespace of the title by a single
\* separator (no whitespace is left, and there is one separator per run beside
\* the underscores the title already had), and is at most 100 characters long.
C30_SanitizedNameIsSafeAndCollapsed ==
    san_pc = "returned" =>
        /\ \A k \in 1..Len(san_result) : san_result[k] \notin InvalidFilenameChars
        /\ \A k \in 1..Len(san_result) : san_result[k] \notin Whitespace
        /\ Len(san_title) <= MaxTitleLen =>
               Separators(san_result) = TitleUnderscores + WhitespaceRuns(san_title)
        /\ Len(san_result) <= 100

Spaces(s) == Cardinality({k \in 1..Len(s) : s[k] = " "})

\* C30 (amended): the returned name contains none of the characters
\* <>:"/\|?*, contains no space, and is at most 100 characters long; every
\* space of the title is replaced by one underscore of its own (a title of
\* fewer than 100 characters with n spaces gains exactly n underscores), and
\* whitespace other than the space is left as it is.
C30_SanitizedNameReplacesEachSpace ==
    san_pc = "returned" =>
        /\ \A k \in 1..Len(san_result) : san_result[k] \notin InvalidFilenameChars
        /\ \A k \in 1..Len(san_result) : san_result[k] # " "
        /\ Len(san_result) <= 100
        /\ Len(san_title) <= MaxTitleLen =>
               /\ Separators(san_result) = TitleUnderscores + Spaces(san_title)
               /\ \A k \in 1..Len(san_title) :
                      san_title[k] = "\t" => \E n \in 1..Len(san_result) : san_result[n] = "\t"

\* A title of two spaces around a removed character has been sanitized.
C30_Witness ==
    /\ san_pc = "returned"
    /\ san_title = <<" ", ":", " ">>
    /\ san_result = <<"_", "_">>

(***************************************************************************)
(* The retries of the two classifier calls                                 *)
(***************************************************************************)
\* The machine of SpecSeg under a name of its own: the properties of the
\* classifier calls (retries, context, required fields, fallback) are checked
\* in a run apart from the properties of the timeline times.
SpecSegCalls == InitSeg /\ [][NextSeg]_vars

FailedAnswerKinds == {"api_error", "not_json", "not_list"}

\* C27: each classifier call of a chunk makes at most MAX_RETRIES attempts, and
\* a call that returned after an attempt that failed (API error, unparsable
\* response, response that is no array) had made all MAX_RETRIES attempts: the
\* fallback is used only after every attempt failed.  A first response that
\* is no JSON, or no array, ends the call with the fallback after one attempt.
C27_FallbackOnlyAfterAllAttempts ==
    \A r \in LogSet : \A kind \in Kinds :
        /\ CallsOfKind(r, kind) <= MAX_RETRIES
        /\ ReturnedAnswer(r, kind).kind \in FailedAnswerKinds
               => CallsOfKind(r, kind) = MAX_RETRIES

\* What holds: at most MAX_RETRIES attempts are made; an attempt that raises
\* (API error, or an exception while the items are validated) is followed by
\* another one unless it was attempt MAX_RETRIES; an attempt whose response is
\* unparsable or no array ends the call at once with the fallback.
RaisingAttemptsRetriedMalformedNot ==
    \A r \in LogSet : \A kind \in Kinds :
        LET answers == AnswersOfKind(r, kind)
            calls   == CallsOfKind(r, kind)
            d       == DurationOf(r.filename)
        IN  /\ calls \in 1..MAX_RETRIES
            /\ \A a \in 1..(calls - 1) : AttemptRaises(answers[a], d)
            /\ AttemptRaises(answers[calls], d) => calls = MAX_RETRIES
            /\ \A a \in 1..Len(answers) :
                   (a <= calls /\ answers[a].kind \in {"not_json", "not_list"})
                       => /\ calls = a
                          /\ ~\E x \in EntrySet :
                                 /\ x.filename = r.filename /\ x.segment_type = kind
                                 /\ x.title # "Unknown"

(***************************************************************************)
(* The previous-topics context of the topic classifier                     *)
(***************************************************************************)
\* The topic list analyse_topic_gpt returned for the n-th analysed file.
TopicsProduced(n) ==
    analyse_topic_gpt(gpt_log[n].topic_answers, DurationOf(gpt_log[n].filename)).topics

\* The files before file_idx that were skipped (transcription error or no segments).
SkippedBefore(idx) ==
    {k \in 1..(idx - 1) : audio_files[k].error \/ audio_files[k].segments = <<>>}

\* C28: the previous-topics argument of the topic classifier for an analysed
\* chunk is the empty list for the first analysed chunk and otherwise exactly
\* the topic list produced for the chunk analysed just before it (never a
\* longer, accumulated list); between two analyses, and over skipped chunks,
\* the context is the list produced for the last analysed chunk.
C28_PreviousTopicsAreLastAnalysedChunks ==
    /\ \A n \in 1..Len(gpt_log) :
           gpt_log[n].previous_topics = IF n = 1 THEN <<>> ELSE TopicsProduced(n - 1)
    /\ prev_topics = IF gpt_log = <<>> THEN <<>> ELSE TopicsProduced(Len(gpt_log))
    /\ Len(gpt_log) + Cardinality(SkippedBefore(file_idx)) = file_idx - 1

\* Two chunks were analysed; the second call
\* was given exactly those and produced a different list.
C28_Witness ==
    /\ Len(gpt_log) = 2
    /\ gpt_log[1].previous_topics = <<>>
    /\ gpt_log[2].previous_topics = <<TopicA>>
    /\ gpt_log[1].topic_answers = <<List(<<TopicG>>), ApiError, List(<<TopicA>>)>>
    /\ prev_topics = <<TopicF>>

\* A skipped chunk after an analysed one: the context is still the first chunk's list.
C28_SkippedChunkKeepsContext ==
    /\ file_idx = 3
    /\ Len(gpt_log) = 1
    /\ SkippedBefore(file_idx) = {2}
    /\ prev_topics = TopicsProduced(1)
    /\ prev_topics # <<>>

(***************************************************************************)
(* Required fields of classifier items                                     *)
(***************************************************************************)
\* The entries of the timeline that come from a file and a classifier.
EntriesFrom(filename, kind) ==
    {x \in EntrySet : x.filename = filename /\ x.segment_type = kind}

LacksRequiredField(it, kind) ==
    \/ ~it.has_title
    \/ kind = "interaction" /\ it.interaction_type = Absent

\* C29 as claimed: an item of a classifier answer that lacks a required field
\* (a topic without title, an interaction without title or without
\* interaction_type) has no entry in the timeline.
C29_ItemsLackingRequiredFieldDiscarded ==
    \A r \in LogSet : \A kind \in Kinds :
        \A it \in ItemsOf(<<ReturnedAnswer(r, kind)>>) :
            (it.is_dict /\ LacksRequiredField(it, kind))
                => ~\E x \in EntriesFrom(r.filename, kind) :
                       /\ x.start = StartOf(it) /\ x.end = EndOf(it)
                       /\ x.title = it.title

\* C29, amended: an item without title (topic or interaction) has no entry in
\* the timeline; an interaction item with title and valid timestamps but
\* without interaction_type is kept, and its entry has interaction_type
\* "Unknown"; one that carries an interaction_type keeps it.
C29_TitleRequiredTypeDefaulted ==
    \A r \in LogSet : \A kind \in Kinds :
        LET answer == ReturnedAnswer(r, kind)
            d      == DurationOf(r.filename)
        IN  (answer.kind = "list" /\ ~AttemptRaises(answer, d))
                => \A it \in ItemsOf(<<answer>>) :
                       /\ (it.is_dict /\ ~it.has_title)
                              => ~\E x \in EntriesFrom(r.filename, kind) :
                                     /\ x.start = StartOf(it) /\ x.end = EndOf(it)
                                     /\ x.title # "Unknown"
                       /\ (kind = "interaction" /\ ItemVerdict(it, d) = "True")
                              => \E x \in EntriesFrom(r.filename, kind) :
                                     /\ x.title = it.title
                                     /\ x.start = StartOf(it) /\ x.end = EndOf(it)
                                     /\ x.interaction_type =
                                            IF it.interaction_type = Absent
                                            THEN UnknownType ELSE it.interaction_type

\* The run has returned after an interaction answer that held an item without
\* interaction_type and an item without title, and a topic answer that held an
\* item without title.
C29_Witness ==
    /\ seg_pc = "returned"
    /\ \E r \in LogSet :
           /\ r.interaction_answers = <<List(<<InterN, InterU>>)>>
           /\ NoTitleItem(T(0, 0), T(1, 0)) \in ItemsOf(r.topic_answers)
           /\ \E x \in EntriesFrom(r.filename, "interaction") :
                  x.title = "N" /\ x.interaction_type = UnknownType

(***************************************************************************)
(* transcribe_segments.py: transcribe_audio_segments                        *)
(***************************************************************************)
MaxDirFiles == 3

\* The characters of the file names below, in the order of their code points.
CodePointOrder ==
    <<"-", ".", "0", "1", "2", "3", "4", "5", "6", "7", "8", "9", "_",
      "a", "b", "c", "d", "e", "f", "g", "h", "i", "j", "k", "l", "m",
      "n", "o", "p", "q", "r", "s", "t", "u", "v", "w", "x", "y", "z">>
Ord(c) == CHOOSE k \in 1..Len(CodePointOrder) : CodePointOrder[k] = c

\* a < b for two str: the first differing character decides, a proper prefix is smaller.
StrLess(a, b) ==
    \E k \in 1..Len(b) :
        /\ \A m \in 1..(k - 1) : m <= Len(a) /\ a[m] = b[m]
        /\ Len(a) >= k - 1
        /\ (Len(a) = k - 1 \/ Ord(a[k]) < Ord(b[k]))

\* sorted(names)
RECURSIVE sorted(_)
sorted(names) ==
    IF names = {} THEN <<>>
    ELSE LET first == CHOOSE x \in names : \A y \in names : x = y \/ StrLess(x, y)
         IN  <<first>> \o sorted(names \ {first})

EndsWith(s, suffix) ==
    Len(s) >= Len(suffix) /\ SubSeq(s, Len(s) - Len(suffix) + 1, Len(s)) = suffix

AudioExtensions ==
    { <<".", "m", "p", "3">>, <<".", "w", "a", "v">>, <<".", "f", "l", "a", "c">>,
      <<".", "m", "4", "a">>, <<".", "o", "g", "g">>, <<".", "o", "p", "u", "s">> }

\* f.endswith(('.mp3', '.wav', '.flac', '.m4a', '.ogg', '.opus'))
HasAudioExtension(f) == \E ext \in AudioExtensions : EndsWith(f, ext)

\* audio_files = [f for f in sorted(os.listdir(output_dir)) if f.endswith(...)]
ListAudioFiles(dir) == SelectSeq(sorted(dir), HasAudioExtension)

NotesFilename == <<"n", "o", "t", "e", "s", ".", "t", "x", "t">>
WavFilename == <<"a", ".", "w", "a", "v">>
DirNames ==
    {ChunkFilename(1), ChunkFilename(2), ChunkFilename(10), UnchunkedFilename,
     WavFilename, NotesFilename}
Directories == {d \in SUBSET DirNames : Cardinality(d) <= MaxDirFiles}

\* What a transcriptions.json left by an earlier call can hold.
StoredTranscriptions ==
    {<<>>, <<TranscribedFile(ChunkFilename(1), 600)>>,
     <<FailedFile(ChunkFilename(1)), TranscribedFile(ChunkFilename(2), 600)>>}

\* One speech-to-text attempt: a transcript with segments, a transcript without
\* segments, or an exception.
AttemptOutcomes == {"segments", "no_segments", "raise"}

retry_step_without_placeholder(attempt, outcome) ==
    IF outcome # "raise" THEN "append_and_break"
    ELSE IF attempt < MAX_RETRIES - 1 THEN "retry"
    ELSE "give_up"

\* The body of "for attempt in range(MAX_RETRIES)": success appends the file's
\* transcription and breaks; an exception is retried while attempt <
\* MAX_RETRIES - 1 and otherwise appends the placeholder entry.
retry_step(attempt, outcome) ==
    IF outcome # "raise" THEN "append_and_break"
    ELSE IF attempt < MAX_RETRIES - 1 THEN "retry"
    ELSE "append_placeholder"

InitTrVars ==
    /\ tr_pc = "start"
    /\ tr_cache_exists \in BOOLEAN
    /\ tr_cache \in (IF tr_cache_exists THEN StoredTranscriptions ELSE {<<>>})
    /\ tr_dir \in Directories
    /\ tr_files = <<>>
    /\ tr_idx = 1
    /\ tr_attempt = 0
    /\ tr_results = <<>>
    /\ tr_api_calls = <<>>
    /\ tr_loaded = FALSE
    /\ tr_returned = <<>>
    /\ tr_timeline = <<>>

\* Lines 55-59: an existing transcriptions.json is loaded and returned.
TrLoadCache ==
    /\ tr_pc = "start"
    /\ tr_cache_exists
    /\ tr_returned' = tr_cache
    /\ tr_loaded' = TRUE
    /\ tr_pc' = "returned"
    /\ UNCHANGED <<tr_cache_exists, tr_cache, tr_dir, tr_files, tr_idx, tr_attempt,
                   tr_results, tr_api_calls, tr_timeline, notTrVars>>

\* Lines 61-65: the audio files of output_dir, sorted by name.
TrListFiles ==
    /\ tr_pc = "start"
    /\ ~tr_cache_exists
    /\ tr_files' = ListAudioFiles(tr_dir)
    /\ tr_pc' = "loop"
    /\ UNCHANGED <<tr_cache_exists, tr_cache, tr_dir, tr_idx, tr_attempt, tr_results,
                   tr_api_calls, tr_loaded, tr_returned, tr_timeline, notTrVars>>

\* Lines 67-119: one attempt on the current file.
TrAttempt ==
    /\ tr_pc = "loop"
    /\ tr_idx <= Len(tr_files)
    /\ \E outcome \in AttemptOutcomes :
         LET filename == tr_files[tr_idx]
             step     == retry_step(tr_attempt, outcome)
         IN  /\ tr_api_calls' = Append(tr_api_calls, [filename |-> filename, outcome |-> outcome])
             /\ tr_results' =
                    IF step = "append_and_break"
                    THEN Append(tr_results,
                                IF outcome = "segments"
                                THEN TranscribedFile(filename, NOMINAL_CHUNK_SECONDS)
                                ELSE SilentFile(filename))
                    ELSE IF step = "append_placeholder"
                    THEN Append(tr_results, FailedFile(filename))
                    ELSE tr_results
             /\ tr_attempt' = IF step = "retry" THEN tr_attempt + 1 ELSE 0
             /\ tr_idx' = IF step = "retry" THEN tr_idx ELSE tr_idx + 1
    /\ UNCHANGED <<tr_pc, tr_cache_exists, tr_cache, tr_dir, tr_files, tr_loaded,
                   tr_returned, tr_timeline, notTrVars>>

\* Lines 121-126: the results are stored in transcriptions.json and returned.
TrSaveAndReturn ==
    /\ tr_pc = "loop"
    /\ tr_idx > Len(tr_files)
    /\ tr_cache_exists' = TRUE
    /\ tr_cache' = tr_results
    /\ tr_returned' = tr_results
    /\ tr_pc' = "returned"
    /\ UNCHANGED <<tr_dir, tr_files, tr_idx, tr_attempt, tr_results, tr_api_calls,
                   tr_loaded, tr_timeline, notTrVars>>

\* The caller hands the returned list to create_segment_json.
TrAnalyse ==
    /\ tr_pc = "returned"
    /\ \E topic_answers \in YtTopicScripts, interaction_answers \in YtInteractionScripts :
           tr_timeline' = create_segment_json(tr_returned, topic_answers, interaction_answers)
    /\ tr_pc' = "analysed"
    /\ UNCHANGED <<tr_cache_exists, tr_cache, tr_dir, tr_files, tr_idx, tr_attempt,
                   tr_results, tr_api_calls, tr_loaded, tr_returned, notTrVars>>

InitTr == InitTrVars /\ IdleSegVars /\ IdleChunkVars /\ IdleJobVars /\ IdleCutVars
              /\ IdleYtVars /\ IdleSanVars /\ IdleUpVars /\ IdleStVars /\ IdleCjVars /\ IdleMdVars /\ IdleNmVars /\ IdleExVars /\ IdleMuVars /\ IdleLaVars
NextTr == TrLoadCache \/ TrListFiles \/ TrAttempt \/ TrSaveAndReturn \/ TrAnalyse
SpecTr == InitTr /\ [][NextTr]_vars

AudioNames == {f \in tr_dir : HasAudioExtension(f)}
CallsFor(f) == SelectSeq(tr_api_calls, LAMBDA c : c.filename = f)
ReturnedNames == [k \in 1..Len(tr_returned) |-> tr_returned[k].filename]
TimelineNames == {tr_timeline[n].filename : n \in 1..Len(tr_timeline)}
AllAttemptsFailed(f) ==
    Len(CallsFor(f)) = MAX_RETRIES /\ \A k \in 1..MAX_RETRIES : CallsFor(f)[k].outcome = "raise"

\* What the claim says of a call that has returned.
TranscriptionContract ==
    /\ \A f \in AudioNames :
           /\ Len(CallsFor(f)) \in 1..MAX_RETRIES
           /\ \A k \in 1..(Len(CallsFor(f)) - 1) : CallsFor(f)[k].outcome = "raise"
    /\ \A n \in 1..Len(tr_api_calls) : tr_api_calls[n].filename \in AudioNames
    /\ ReturnedNames = sorted(AudioNames)
    /\ \A k \in 1..Len(tr_returned) :
           LET f == tr_returned[k].filename
           IN  /\ AllAttemptsFailed(f) <=> tr_returned[k].error
               /\ AllAttemptsFailed(f) => tr_returned[k].segments = <<>>
               /\ tr_pc = "analysed" =>
                      (f \in TimelineNames <=> tr_returned[k].segments # <<>>)

\* C26 as claimed: a call of transcribe_audio_segments that has returned made
\* between one and MAX_RETRIES attempts on every audio file of the directory
\* and none after a file's first success, and returned exactly one entry per
\* audio file in sorted name order; the entry of a file whose attempts all
\* failed has no segments and no entry in the timeline, and every file with
\* segments has entries in the timeline.
C26_OneEntryPerAudioFile ==
    tr_pc \in {"returned", "analysed"} => TranscriptionContract

\* C26, amended: the same, for a call made while transcriptions.json does not
\* exist; a call made while it exists makes no attempt and returns the stored list.
C26_OneEntryPerAudioFileUnlessStored ==
    tr_pc \in {"returned", "analysed"} =>
        IF tr_loaded
        THEN tr_api_calls = <<>> /\ tr_returned = tr_cache
        ELSE TranscriptionContract /\ tr_cache = tr_returned

\* Two audio files and one other file: every attempt on the first failed, the
\* second succeeded at its second attempt; the timeline has been built.
C26_Witness ==
    /\ tr_pc = "analysed"
    /\ ~tr_loaded
    /\ tr_dir = {ChunkFilename(10), ChunkFilename(2), NotesFilename}
    /\ AllAttemptsFailed(ChunkFilename(2))
    /\ Len(CallsFor(ChunkFilename(10))) = 2
    /\ ReturnedNames = <<ChunkFilename(2), ChunkFilename(10)>>
    /\ TimelineNames = {ChunkFilename(10)}

(***************************************************************************)
(* Retention of the intermediate files (process_youtube_video)             *)
(***************************************************************************)
\* The intermediate files the run wrote that are no longer on disk.
DeletedIntermediates == yt_produced \ yt_intermediates

\* C21: when the call has returned, an intermediate file (the source video,
\* the extracted audio, the chunk files, transcriptions.json, segments.json)
\* has been deleted only if at least one upload succeeded; with no successful
\* upload every intermediate file the run wrote is still there.  The clean-up
\* runs under "if all_segments:", before any upload is attempted: a call whose
\* segments were cut and whose uploads all failed returns with them deleted.
C21_IntermediatesDeletedOnlyAfterUpload ==
    yt_pc = "returned" =>
        /\ DeletedIntermediates # {} => yt_s3_urls # <<>>
        /\ yt_s3_urls = <<>> => yt_intermediates = yt_produced

\* What holds: when the call has returned, the intermediate files have been
\* cleaned up only if at least one segment was cut; when no segment was cut
\* they are all still there, except the extracted audio of a run that chunked
\* it (it is deleted right after chunking).
IntermediatesCleanedUpOnlyAfterCut ==
    yt_pc = "returned" =>
        /\ DeletedIntermediates \ {"audio"} # {} => yt_all_segments # <<>>
        /\ yt_all_segments = <<>> =>
               yt_intermediates =
                   yt_produced \ (IF "chunks" \in yt_produced THEN {"audio"} ELSE {})
        /\ {"video", "audio"} \subseteq yt_produced

(***************************************************************************)
(* modal_app.py: upload_video_segments_to_s3                               *)
(***************************************************************************)
MaxUploadFiles == 2

Mp4 == <<".", "m", "p", "4">>
InteractionsWord == <<"i", "n", "t", "e", "r", "a", "c", "t", "i", "o", "n", "s">>

\* needle in haystack, for two str
ContainsStr(haystack, needle) ==
    \E k \in 1..(Len(haystack) - Len(needle) + 1) :
        SubSeq(haystack, k, k + Len(needle) - 1) = needle

\* The file create_video_segments writes for the i-th topic entry:
\* os.path.join(OUTPUT_DIR, f"{i:02d}_{sanitized_title}.mp4")
RegularSegmentFile(i, title) ==
    [dir |-> OUTPUT_DIR, name |-> Pad2(i) \o <<"_">> \o sanitize_filename(title) \o Mp4]

\* ... and for the i-th interaction entry:
\* os.path.join(INTERACTION_OUTPUT_DIR, f"{i:02d}_{interaction_type}_{sanitized_title}.mp4")
InteractionSegmentFile(i, interaction_type, title) ==
    [dir |-> INTERACTION_OUTPUT_DIR,
     name |-> Pad2(i) \o <<"_">> \o interaction_type \o <<"_">> \o sanitize_filename(title) \o Mp4]

TitleIntro == <<"I", "n", "t", "r", "o">>
TitleStudentInteractions == <<"S", "t", "u", "d", "e", "n", "t", " ">> \o InteractionsWord
TitleWhy == <<"W", "h", "y", "?">>

CutFile(path, kind, exists) == [path |-> path, kind |-> kind, exists |-> exists]
CutFiles ==
    {CutFile(path, "topic", exists) :
        path \in {RegularSegmentFile(1, TitleIntro), RegularSegmentFile(2, TitleStudentInteractions)},
        exists \in BOOLEAN}
    \cup {CutFile(InteractionSegmentFile(1, QuestionType, TitleWhy), "interaction", exists) :
             exists \in BOOLEAN}
VideoSegmentLists == UNION {[1..n -> CutFiles] : n \in 0..MaxUploadFiles}

\* "interactions" in str(segment_file)
in_interactions_path(path) ==
    \/ path.dir = INTERACTION_OUTPUT_DIR
    \/ ContainsStr(path.name, InteractionsWord)

\* s3_key and segment_type of lines 350-356, for one timestamp
TagOf(path, timestamp) ==
    IF in_interactions_path(path)
    THEN [s3_key |-> [folder |-> "video-segments/interactions/", timestamp |-> timestamp,
                      name |-> path.name],
          segment_type |-> "interaction"]
    ELSE [s3_key |-> [folder |-> "video-segments/topics/", timestamp |-> timestamp,
                      name |-> path.name],
          segment_type |-> "topic"]

Timestamps == {"20250101_120000", "20250101_120001"}

InitUpVars ==
    /\ up_pc = "start"
    /\ video_segments \in VideoSegmentLists
    /\ up_i = 1
    /\ s3_urls = <<>>
    /\ up_sources = <<>>

\* Lines 333-339: nothing to upload.
UpStart ==
    /\ up_pc = "start"
    /\ up_pc' = IF video_segments = <<>> THEN "returned" ELSE "loop"
    /\ UNCHANGED <<video_segments, up_i, s3_urls, up_sources, notUpVars>>

\* Lines 341-369: one file; a missing file is passed over, a failed upload is
\* logged and leaves no element in s3_urls.
UpOne ==
    /\ up_pc = "loop"
    /\ up_i <= Len(video_segments)
    /\ LET segment == video_segments[up_i]
       IN  IF ~segment.exists
           THEN UNCHANGED <<s3_urls, up_sources>>
           ELSE \E timestamp \in Timestamps, uploaded \in BOOLEAN :
                    LET tag == TagOf(segment.path, timestamp)
                    IN  IF uploaded
                        THEN /\ s3_urls' = Append(s3_urls,
                                    [filename |-> segment.path.name, s3_key |-> tag.s3_key,
                                     segment_type |-> tag.segment_type])
                             /\ up_sources' = Append(up_sources, up_i)
                        ELSE UNCHANGED <<s3_urls, up_sources>>
    /\ up_i' = up_i + 1
    /\ UNCHANGED <<up_pc, video_segments, notUpVars>>

\* Lines 371-372
UpReturn ==
    /\ up_pc = "loop"
    /\ up_i > Len(video_segments)
    /\ up_pc' = "returned"
    /\ UNCHANGED <<video_segments, up_i, s3_urls, up_sources, notUpVars>>

InitUp == InitUpVars /\ IdleSegVars /\ IdleChunkVars /\ IdleJobVars /\ IdleCutVars
              /\ IdleYtVars /\ IdleSanVars /\ IdleTrVars /\ IdleStVars /\ IdleCjVars /\ IdleMdVars /\ IdleNmVars /\ IdleExVars /\ IdleMuVars /\ IdleLaVars
NextUp == UpStart \/ UpOne \/ UpReturn
SpecUp == InitUp /\ [][NextUp]_vars

FolderOfKind(kind) ==
    IF kind = "interaction" THEN "video-segments/interactions/" ELSE "video-segments/topics/"

\* C22: every uploaded artifact carries the kind it was cut as: a file cut from
\* a topic entry has segment_type "topic" and a key under video-segments/topics/,
\* a file cut from an interaction entry has segment_type "interaction" and a
\* key under video-segments/interactions/, whatever its title.
C22_ArtifactsTaggedWithTheirKind ==
    \A n \in 1..Len(s3_urls) :
        LET segment == video_segments[up_sources[n]]
        IN  /\ s3_urls[n].segment_type = segment.kind
            /\ s3_urls[n].s3_key.folder = FolderOfKind(segment.kind)

\* What holds: a file of the interactions directory is tagged interaction, and a
\* topic file whose name does not contain "interactions" is tagged topic.
UploadsTaggedByPath ==
    \A n \in 1..Len(s3_urls) :
        LET segment == video_segments[up_sources[n]]
        IN  (segment.kind = "interaction" \/ ~ContainsStr(segment.path.name, InteractionsWord))
                => /\ s3_urls[n].segment_type = segment.kind
                   /\ s3_urls[n].s3_key.folder = FolderOfKind(segment.kind)

(***************************************************************************)
(* modal_app.py: progress_stream_endpoint, fed by send_progress_update     *)
(***************************************************************************)
NumStreams == 2
Streams == 1..NumStreams

JobB == "s3://bucket/b.mp4"

\* The updates a job issues, in order, in its shortest run, the one whose
\* download gives no file (lines 1822, 1829 and the handler of 1976-1979):
\* two running updates, then its terminal one.
JobUpdates(s3_url) ==
    <<RunningUpdate(s3_url, "Starting video processing...", 5),
      RunningUpdate(s3_url, "Downloading video from S3...", 15),
      FailedUpdate(s3_url, DownloadError)>>

ends_stream_always(update_data) == TRUE

\* update_data.get('status') in ['completed', 'failed']
ends_stream(update_data) == update_data.status \in {"completed", "failed"}

InitStVars ==
    /\ st_queue = <<>>
    /\ st_put_errors = <<>>
    /\ st_issued = [u \in JobUrls |-> 0]
    \* streams are interchangeable: they are numbered in the order of their jobs
    /\ st_url \in {f \in [Streams -> JobUrls] :
                      \A s \in Streams : s > 1 => (f[s] = f[s - 1] \/ f[s] = JobB)}
    \* every stream has yielded its connection message and is at the head of its loop
    /\ st_pc = [s \in Streams |-> "poll"]
    /\ st_out = [s \in Streams |-> <<>>]
    /\ st_dropped = {}

\* A job calls send_progress_update for its next update.
StPublish(s3_url) ==
    /\ st_issued[s3_url] < Len(JobUpdates(s3_url))
    /\ \E put_ok \in BOOLEAN :
         LET sent == send_progress_update([queue |-> st_queue, errors |-> st_put_errors],
                                          JobUpdates(s3_url)[st_issued[s3_url] + 1], put_ok)
         IN  /\ st_queue' = sent.queue
             /\ st_put_errors' = sent.errors
    /\ st_issued' = [st_issued EXCEPT ![s3_url] = @ + 1]
    /\ UNCHANGED <<st_url, st_pc, st_out, st_dropped, notStVars>>

\* Lines 1742-1748: progress_queue.get returned the head of the queue, which is
\* removed; when its key is the stream's it is yielded, and the generator is
\* suspended at that yield; otherwise the loop goes on.
StGet(s) ==
    /\ st_pc[s] = "poll"
    /\ st_queue # <<>>
    /\ LET received_key == Head(st_queue)[1]
           update_data  == Head(st_queue)[2]
       IN  IF received_key = hash_s3_url(st_url[s])
           THEN /\ st_out' = [st_out EXCEPT ![s] = Append(@, update_data)]
                /\ st_pc' = [st_pc EXCEPT ![s] = "yielded"]
                /\ UNCHANGED st_dropped
           ELSE /\ st_dropped' = st_dropped \cup {[stream |-> s, item |-> Head(st_queue)]}
                /\ UNCHANGED <<st_out, st_pc>>
    /\ st_queue' = Tail(st_queue)
    /\ UNCHANGED <<st_put_errors, st_issued, st_url, notStVars>>

\* Lines 1750-1753: the generator is resumed after the yield of an update: a
\* terminal status ends the stream, any other leads back to the head of the loop.
StResume(s) ==
    /\ st_pc[s] = "yielded"
    /\ st_pc' = [st_pc EXCEPT ![s] =
                    IF ends_stream(st_out[s][Len(st_out[s])]) THEN "ended" ELSE "poll"]
    /\ UNCHANGED <<st_queue, st_put_errors, st_issued, st_url, st_out, st_dropped, notStVars>>

\* Lines 1742, 1754: progress_queue.get raised: the queue stayed empty for the
\* timeout of one second, or the call failed.
StGetRaises(s) ==
    /\ st_pc[s] = "poll"
    /\ st_pc' = [st_pc EXCEPT ![s] = "except"]
    /\ UNCHANGED <<st_queue, st_put_errors, st_issued, st_url, st_out, st_dropped, notStVars>>

\* Line 1756: the heartbeat is yielded.
StHeartbeat(s) ==
    /\ st_pc[s] = "except"
    /\ st_pc' = [st_pc EXCEPT ![s] = "sleep"]
    /\ UNCHANGED <<st_queue, st_put_errors, st_issued, st_url, st_out, st_dropped, notStVars>>

\* Line 1757: asyncio.sleep(1) is over, back to the head of the loop.
StWake(s) ==
    /\ st_pc[s] = "sleep"
    /\ st_pc' = [st_pc EXCEPT ![s] = "poll"]
    /\ UNCHANGED <<st_queue, st_put_errors, st_issued, st_url, st_out, st_dropped, notStVars>>

StreamStep(s) == StGet(s) \/ StResume(s) \/ StGetRaises(s) \/ StHeartbeat(s) \/ StWake(s)

InitStream == InitStVars /\ IdleSegVars /\ IdleChunkVars /\ IdleJobVars /\ IdleCutVars
                  /\ IdleYtVars /\ IdleSanVars /\ IdleTrVars /\ IdleUpVars /\ IdleCjVars /\ IdleMdVars /\ IdleNmVars /\ IdleExVars /\ IdleMuVars /\ IdleLaVars
NextStream ==
    \/ \E s3_url \in JobUrls : StPublish(s3_url)
    \/ \E s \in Streams : StGet(s)
    \/ \E s \in Streams : StResume(s)
    \/ \E s \in Streams : StGetRaises(s)
    \/ \E s \in Streams : StHeartbeat(s)
    \/ \E s \in Streams : StWake(s)
SpecStream == InitStream /\ [][NextStream]_vars

\* The server keeps driving a generator whose client is reading.
FairSpecStream == SpecStream /\ \A s \in Streams : WF_vars(StreamStep(s))

InQueue(update_data) == \E n \in 1..Len(st_queue) : st_queue[n][2] = update_data
Yielded(s, update_data) == \E n \in 1..Len(st_out[s]) : st_out[s][n] = update_data

\* C24: two streams attached to the same job both receive each of its updates:
\* an update that has left the queue and was delivered to one stream of a job
\* has been delivered to every stream of that job.
C24_EveryUpdateReachesEverySubscriber ==
    \A s1 \in Streams, s2 \in Streams :
        st_url[s1] = st_url[s2] =>
            \A n \in 1..Len(st_out[s1]) :
                Yielded(s2, st_out[s1][n]) \/ InQueue(st_out[s1][n])

\* What holds: every update a stream yields is one of its own job, and no update
\* is yielded by two streams.
UpdatesYieldedAtMostOnce ==
    \A s1 \in Streams, s2 \in Streams : \A n \in 1..Len(st_out[s1]) :
        /\ st_out[s1][n].s3_url = st_url[s1]
        /\ s1 # s2 => ~Yielded(s2, st_out[s1][n])

\* C25: a stream never blocks for good: after a poll that raised (the timeout)
\* it yields a heartbeat, sleeps and polls again; and it leaves the loop only
\* after it has yielded a completed or failed update of its own job.
C25_HeartbeatOnTimeoutUntilTerminal ==
    /\ \A s \in Streams : (st_pc[s] = "except") ~> (st_pc[s] = "poll")
    /\ [][\A s \in Streams :
              /\ (st_pc[s] = "except" /\ st_pc'[s] # "except") => st_pc'[s] = "sleep"
              /\ (st_pc[s] = "sleep" /\ st_pc'[s] # "sleep") => st_pc'[s] = "poll"]_vars
    /\ [](\A s \in Streams :
              st_pc[s] = "ended" =>
                  /\ st_out[s] # <<>>
                  /\ st_out[s][Len(st_out[s])].status \in {"completed", "failed"}
                  /\ st_out[s][Len(st_out[s])].s3_url = st_url[s])

\* A stream has yielded a running update, then timed out, and is asleep after
\* its heartbeat while the terminal update has not been issued yet.
C25_Witness ==
    \E s \in Streams :
        /\ st_pc[s] = "sleep"
        /\ Len(st_out[s]) = 1
        /\ st_issued[st_url[s]] = 1
        /\ st_queue = <<>>

(***************************************************************************)
(* modal_app.py: concurrent runs of process_video_background               *)
(***************************************************************************)
NumJobs == 2
Jobs == 1..NumJobs

\* audio_path = OUTPUT_DIR / f"{file_id}_s3_audio.mp3" and the chunks cut from
\* it: the names carry the job's uuid, the directory is the same for all jobs.
AudioOf(j)  == [owner |-> j, kind |-> "audio"]
ChunksOf(j) == [owner |-> j, kind |-> "chunks"]

\* str(e) of the FileNotFoundError of a stat, an open or an unlink on a file
\* that is gone
FileNotFoundError == "[Errno 2] No such file or directory"

\* No entry of the directory listing is being visited.
NoFilePath == [owner |-> 0, kind |-> "none"]

InitCjVars ==
    /\ cj_pc = [j \in Jobs |-> "start"]
    /\ cj_output = {}
    /\ cj_error = [j \in Jobs |-> NoException]
    /\ cj_lost = {}
    /\ cj_listing = [j \in Jobs |-> {}]
    /\ cj_file_path = [j \in Jobs |-> NoFilePath]

CjRunning(j) == cj_pc[j] \notin {"start", "iterdir", "unlink_remnant", "done"}

CjFail(j, e) ==
    /\ cj_pc' = [cj_pc EXCEPT ![j] = "done"]
    /\ cj_error' = [cj_error EXCEPT ![j] = e]

\* Line 1819, cleanup_previous_files, lines 672-676: directory.iterdir() on
\* OUTPUT_DIR lists the entries the directory has at that moment, whoever
\* wrote them.
CjCleanup(j) ==
    /\ cj_pc[j] = "start"
    /\ cj_listing' = [cj_listing EXCEPT ![j] = cj_output]
    /\ cj_pc' = [cj_pc EXCEPT ![j] = "iterdir"]
    /\ UNCHANGED <<cj_output, cj_error, cj_lost, cj_file_path, notCjVars>>

\* Lines 676-677: the loop takes the next entry of the listing, in whatever
\* order the file system gave them, and file_path.is_file() is False for an
\* entry that is gone by now; after the last entry the function returns.
CjIsFile(j) ==
    /\ cj_pc[j] = "iterdir"
    /\ IF cj_listing[j] = {}
       THEN /\ cj_pc' = [cj_pc EXCEPT ![j] = "download"]
            /\ UNCHANGED <<cj_listing, cj_file_path>>
       ELSE \E file_path \in cj_listing[j] :
                /\ cj_listing' = [cj_listing EXCEPT ![j] = @ \ {file_path}]
                /\ IF file_path \in cj_output
                   THEN /\ cj_file_path' = [cj_file_path EXCEPT ![j] = file_path]
                        /\ cj_pc' = [cj_pc EXCEPT ![j] = "unlink_remnant"]
                   ELSE UNCHANGED <<cj_pc, cj_file_path>>
    /\ UNCHANGED <<cj_output, cj_error, cj_lost, notCjVars>>

\* Lines 678-682: file_path.unlink().  It raises when the file is gone since
\* is_file() (FileNotFoundError) and can raise on a file that is there (an
\* OSError of the volume); the except clause of line 681 is outside the loop,
\* so the exception ends the loop and the entries not visited yet stay.
CjUnlinkRemnant(j) ==
    /\ cj_pc[j] = "unlink_remnant"
    /\ \E raises \in BOOLEAN :
         IF raises \/ cj_file_path[j] \notin cj_output
         THEN /\ cj_listing' = [cj_listing EXCEPT ![j] = {}]
              /\ cj_pc' = [cj_pc EXCEPT ![j] = "download"]
              /\ UNCHANGED <<cj_output, cj_lost>>
         ELSE /\ cj_output' = cj_output \ {cj_file_path[j]}
              /\ cj_lost' = cj_lost \cup
                     (IF CjRunning(cj_file_path[j].owner)
                      THEN {[file |-> cj_file_path[j], by |-> j]} ELSE {})
              /\ cj_pc' = [cj_pc EXCEPT ![j] = "iterdir"]
              /\ UNCHANGED cj_listing
    /\ cj_file_path' = [cj_file_path EXCEPT ![j] = NoFilePath]
    /\ UNCHANGED <<cj_error, notCjVars>>

\* Lines 1829-1834
CjDownload(j) ==
    /\ cj_pc[j] = "download"
    /\ \E downloaded \in {None, DownloadedPath} :
         IF downloaded = None
         THEN CjFail(j, DownloadError)
         ELSE cj_pc' = [cj_pc EXCEPT ![j] = "extract_audio"] /\ UNCHANGED cj_error
    /\ UNCHANGED <<cj_output, cj_lost, cj_listing, cj_file_path, notCjVars>>

\* Lines 1838-1855: ffmpeg writes the job's audio file into OUTPUT_DIR.
CjExtractAudio(j) ==
    /\ cj_pc[j] = "extract_audio"
    /\ \E rc \in {0, 1} :
         IF rc /= 0
         THEN CjFail(j, FFmpegError) /\ UNCHANGED cj_output
         ELSE /\ cj_output' = cj_output \cup {AudioOf(j)}
              /\ cj_pc' = [cj_pc EXCEPT ![j] = "chunk"]
              /\ UNCHANGED cj_error
    /\ UNCHANGED <<cj_lost, cj_listing, cj_file_path, notCjVars>>

\* Lines 1860-1863 and 1872-1874: get_file_size_mb stats the audio file (a file
\* that is gone raises); a file above MAX_AUDIO_SIZE_MB goes to chunk_audio,
\* a smaller one is the only chunk.
CjStat(j) ==
    /\ cj_pc[j] = "chunk"
    /\ IF AudioOf(j) \notin cj_output
       THEN CjFail(j, FileNotFoundError)
       ELSE \E exceeds \in BOOLEAN :
                /\ cj_pc' = [cj_pc EXCEPT ![j] = IF exceeds THEN "load" ELSE "transcribe"]
                /\ UNCHANGED cj_error
    /\ UNCHANGED <<cj_output, cj_lost, cj_listing, cj_file_path, notCjVars>>

\* chunk_audio, line 611: AudioSegment.from_file opens and reads the whole
\* audio file; the open of a file that is gone raises FileNotFoundError, the
\* decoding can fail, and chunk_audio re-raises either (lines 646-648).
CjLoad(j) ==
    /\ cj_pc[j] = "load"
    /\ IF AudioOf(j) \notin cj_output
       THEN CjFail(j, FileNotFoundError)
       ELSE \E raises \in BOOLEAN :
                IF raises
                THEN CjFail(j, ChunkError)
                ELSE cj_pc' = [cj_pc EXCEPT ![j] = "export"] /\ UNCHANGED cj_error
    /\ UNCHANGED <<cj_output, cj_lost, cj_listing, cj_file_path, notCjVars>>

\* chunk_audio, lines 625-636: one pass of the loop up to chunk.export, which
\* writes a chunk file into OUTPUT_DIR, or raises, and then the chunks written
\* before stay.
CjExport(j) ==
    /\ cj_pc[j] = "export"
    /\ \E raises \in BOOLEAN :
         IF raises
         THEN CjFail(j, ChunkError) /\ UNCHANGED cj_output
         ELSE /\ cj_output' = cj_output \cup {ChunksOf(j)}
              /\ cj_pc' = [cj_pc EXCEPT ![j] = "chunk_stat"]
              /\ UNCHANGED cj_error
    /\ UNCHANGED <<cj_lost, cj_listing, cj_file_path, notCjVars>>

\* chunk_audio, lines 639-642: chunk_path.stat() on the chunk just exported (a
\* file that is gone raises, and chunk_audio re-raises), then the next pass
\* of the loop or, after the last chunk, the return.
CjChunkStat(j) ==
    /\ cj_pc[j] = "chunk_stat"
    /\ IF ChunksOf(j) \notin cj_output
       THEN CjFail(j, FileNotFoundError)
       ELSE \E last \in BOOLEAN :
                /\ cj_pc' = [cj_pc EXCEPT ![j] = IF last THEN "unlink" ELSE "export"]
                /\ UNCHANGED cj_error
    /\ UNCHANGED <<cj_output, cj_lost, cj_listing, cj_file_path, notCjVars>>

\* Line 1869: audio_path.unlink(), which raises when the file is gone.
CjUnlink(j) ==
    /\ cj_pc[j] = "unlink"
    /\ IF AudioOf(j) \notin cj_output
       THEN CjFail(j, FileNotFoundError) /\ UNCHANGED cj_output
       ELSE /\ cj_output' = cj_output \ {AudioOf(j)}
            /\ cj_pc' = [cj_pc EXCEPT ![j] = "transcribe"]
            /\ UNCHANGED cj_error
    /\ UNCHANGED <<cj_lost, cj_listing, cj_file_path, notCjVars>>

\* Lines 1878-1906 and the outer handler: the transcription call raises TypeError.
CjTranscribe(j) ==
    /\ cj_pc[j] = "transcribe"
    /\ CjFail(j, TranscriptionError)
    /\ UNCHANGED <<cj_output, cj_lost, cj_listing, cj_file_path, notCjVars>>

InitTwoJobs == InitCjVars /\ IdleSegVars /\ IdleChunkVars /\ IdleJobVars /\ IdleCutVars
                   /\ IdleYtVars /\ IdleSanVars /\ IdleTrVars /\ IdleUpVars
                   /\ IdleStVars /\ IdleMdVars /\ IdleNmVars /\ IdleExVars /\ IdleMuVars /\ IdleLaVars
NextTwoJobs ==
    \/ \E j \in Jobs : CjCleanup(j)
    \/ \E j \in Jobs : CjIsFile(j)
    \/ \E j \in Jobs : CjUnlinkRemnant(j)
    \/ \E j \in Jobs : CjDownload(j)
    \/ \E j \in Jobs : CjExtractAudio(j)
    \/ \E j \in Jobs : CjStat(j)
    \/ \E j \in Jobs : CjLoad(j)
    \/ \E j \in Jobs : CjExport(j)
    \/ \E j \in Jobs : CjChunkStat(j)
    \/ \E j \in Jobs : CjUnlink(j)
    \/ \E j \in Jobs : CjTranscribe(j)
SpecTwoJobs == InitTwoJobs /\ [][NextTwoJobs]_vars

\* The errors a job can end with when it runs alone.
ErrorsWhenAlone == {DownloadError, FFmpegError, ChunkError, TranscriptionError}

\* C23: two jobs that run at the same time do not interfere: no step of one
\* removes a file (audio, chunks) of the other while that one is running, and
\* each job ends as it can end when it runs alone.
C23_ConcurrentJobsDoNotInterfere ==
    /\ cj_lost = {}
    /\ \A j \in Jobs : cj_pc[j] = "done" => cj_error[j] \in ErrorsWhenAlone

\* What holds: a job only ever loses files to the clean-up of another job.
FilesLostOnlyToCleanup ==
    /\ \A l \in cj_lost : l.by # l.file.owner /\ cj_pc[l.by] # "start"
    /\ \A j \in Jobs : cj_pc[j] \in {"start", "iterdir", "unlink_remnant"} =>
           \A f \in cj_output : f.owner # j
    /\ \A j \in Jobs :
           (cj_pc[j] = "done" /\ cj_error[j] \notin ErrorsWhenAlone)
               => \E l \in cj_lost : l.file.owner = j

\* ---------------------------------------------------------------------------
\* download_youtube_video of main.py: three download configurations, the search
\* for the downloaded file, and the ffprobe check of what was found.
\* ---------------------------------------------------------------------------

MaxCandidates == 2

\* The return value None
NoFile == [name |-> "None", probe |-> "none"]

\* What ffprobe does on a file: it prints "video" with return code 0, it does
\* not, or subprocess.run raises.
ProbeOutcomes == {"video", "invalid", "raises"}
CandidateNames == {"id_youtube_video.mp4", "older.mp4", "notes.webm"}
CandidateLists ==
    {files \in UNION {[1..n -> [name : CandidateNames, probe : ProbeOutcomes]] :
                         n \in 0..MaxCandidates} :
        \A a, b \in 1..Len(files) : a # b => files[a].name # files[b].name}

\* Lines 378-379: returncode 0 and 'video' in stdout
probe_passes(file) == file.probe = "video"

\* Lines 364-395 for a non-empty downloaded_files: the value the function returns.
probe_and_pick(files) ==
    IF files[1].probe = "raises" THEN files[1]
    ELSE IF probe_passes(files[1]) THEN files[1]
    ELSE IF Len(files) > 1 THEN files[2]
    ELSE NoFile

InitMdVars ==
    /\ md_pc = "download"
    /\ md_attempt = 1
    /\ downloaded_files = <<>>
    /\ md_probed = <<>>
    /\ md_returned = NoFile

\* Lines 246-303: ydl.download with the first configuration, then the
\* alternative, then the minimal one; the third failure raises, and the outer
\* handler (lines 397-399) returns None.
MdDownload ==
    /\ md_pc = "download"
    /\ \E ok \in BOOLEAN :
           IF ok
           THEN /\ md_pc' = "search"
                /\ UNCHANGED md_attempt
           ELSE IF md_attempt < 3
           THEN /\ md_attempt' = md_attempt + 1
                /\ UNCHANGED md_pc
           ELSE /\ md_pc' = "returned"
                /\ UNCHANGED md_attempt
    /\ UNCHANGED <<downloaded_files, md_probed, md_returned, notMdVars>>

\* Lines 308-362 and 390-395: the search for the downloaded file; with nothing
\* found the function returns None.
MdSearch ==
    /\ md_pc = "search"
    /\ \E files \in CandidateLists :
           /\ downloaded_files' = files
           /\ md_pc' = IF files = <<>> THEN "returned" ELSE "probe"
    /\ UNCHANGED <<md_attempt, md_probed, md_returned, notMdVars>>

\* Lines 364-389: ffprobe on downloaded_files[0], and the return.
MdProbe ==
    /\ md_pc = "probe"
    /\ md_probed' = Append(md_probed, downloaded_files[1])
    /\ md_returned' = probe_and_pick(downloaded_files)
    /\ md_pc' = "returned"
    /\ UNCHANGED <<md_attempt, downloaded_files, notMdVars>>

InitMainDownload == InitMdVars /\ IdleSegVars /\ IdleChunkVars /\ IdleJobVars /\ IdleCutVars
                       /\ IdleYtVars /\ IdleSanVars /\ IdleTrVars /\ IdleUpVars
                       /\ IdleStVars /\ IdleCjVars /\ IdleNmVars /\ IdleExVars /\ IdleMuVars /\ IdleLaVars
NextMainDownload == MdDownload \/ MdSearch \/ MdProbe
SpecMainDownload == InitMainDownload /\ [][NextMainDownload]_vars

WasProbed(file) == \E k \in 1..Len(md_probed) : md_probed[k] = file

\* C31: after a successful download the function returns a file only if that
\* file passed the playable-video probe, and when a candidate exists and none
\* passes, the download is reported as failed (None).
C31_ReturnedFilePassedProbe ==
    md_pc = "returned" =>
        /\ md_returned # NoFile => WasProbed(md_returned) /\ probe_passes(md_returned)
        /\ (\A k \in 1..Len(downloaded_files) : ~probe_passes(downloaded_files[k]))
               => md_returned = NoFile

\* What holds: only the first candidate is ever probed; the function returns it
\* when the probe passes or cannot be run, and otherwise the second candidate
\* unprobed, or None when there is no second candidate.
OnlyFirstCandidateProbed ==
    md_pc = "returned" =>
        /\ Len(md_probed) <= 1
        /\ \A k \in 1..Len(md_probed) : md_probed[k] = downloaded_files[1]
        /\ (md_returned # NoFile /\ ~WasProbed(md_returned))
               => Len(downloaded_files) > 1 /\ md_returned = downloaded_files[2]

\* ---------------------------------------------------------------------------
\* From the name of the source file to chunk_number: the extracted audio is
\* named after the source (script_trimmer.py) or after a fresh uuid
\* (modal_app.py), the chunker names its chunks chunk_001_<stem>.mp3, ..., and
\* create_segment_json reads chunk_number back from the file name.
\* ---------------------------------------------------------------------------

MaxStemLen == 3
MaxNameChunks == 2

Mp3Suffix == <<".", "m", "p", "3">>

\* Path(video_path).stem of the source file: letters, digits and underscores.
StemAlphabet == {"a", "5", "_"}
VideoStems == UNION {[1..n -> StemAlphabet] : n \in 1..MaxStemLen}

\* str(uuid.uuid4()): hexadecimal digits and hyphens, no underscore.
FileId == <<"4", "f", "-", "9">>

NamingCallers ==
    {"script_trimmer", "process_video_from_s3", "process_video_background",
     "process_youtube_video"}

\* The stem of the extracted audio file:
\*   script_trimmer.py 43-44    f"{video_name}_audio.mp3"
\*   modal_app.py 885, 1840     f"{file_id}_s3_audio.mp3"
\*   modal_app.py 1386          f"{file_id}_youtube_audio.mp3"
audio_stem(caller, video_name) ==
    IF caller = "script_trimmer"
    THEN video_name \o <<"_", "a", "u", "d", "i", "o">>
    ELSE IF caller \in {"process_video_from_s3", "process_video_background"}
    THEN FileId \o <<"_", "s", "3", "_", "a", "u", "d", "i", "o">>
    ELSE FileId \o <<"_", "y", "o", "u", "t", "u", "b", "e", "_", "a", "u", "d", "i", "o">>

\* f"chunk_{i+1:03d}_{Path(audio_path).stem}.mp3" for k = i + 1
chunk_filename(k, stem) ==
    <<"c", "h", "u", "n", "k", "_">> \o Pad3(k) \o <<"_">> \o stem \o Mp3Suffix

InitNmVars ==
    /\ nm_pc = "extract"
    /\ nm_caller \in NamingCallers
    /\ nm_stem \in VideoStems
    /\ nm_chunks \in 0..MaxNameChunks
    /\ nm_audio = <<>>
    /\ nm_output = {}
    /\ nm_files = <<>>
    /\ nm_numbers = <<>>

\* extract_audio_from_video (script_trimmer.py 43-46) and the audio_filename of
\* the service pipelines.
NmExtractAudio ==
    /\ nm_pc = "extract"
    /\ nm_audio' = audio_stem(nm_caller, nm_stem) \o Mp3Suffix
    /\ nm_output' = {audio_stem(nm_caller, nm_stem) \o Mp3Suffix}
    /\ nm_pc' = "chunk"
    /\ UNCHANGED <<nm_caller, nm_stem, nm_chunks, nm_files, nm_numbers, notNmVars>>

\* The chunk files the chunker writes for the audio file.
chunk_files_of(caller, video_name, n) ==
    {chunk_filename(k, audio_stem(caller, video_name)) : k \in 1..n}

\* step2_chunk_audio (script_trimmer.py 231-247) and the chunking stage of the
\* service pipelines: an audio file over the size limit gets its chunk files
\* next to it; the service pipelines then delete the audio file,
\* script_trimmer.py leaves it in the directory.
NmChunk ==
    /\ nm_pc = "chunk"
    /\ nm_output' = IF nm_chunks = 0
                    THEN nm_output
                    ELSE IF nm_caller = "script_trimmer"
                    THEN nm_output \cup chunk_files_of(nm_caller, nm_stem, nm_chunks)
                    ELSE chunk_files_of(nm_caller, nm_stem, nm_chunks)
    /\ nm_pc' = "transcribe"
    /\ UNCHANGED <<nm_caller, nm_stem, nm_chunks, nm_audio, nm_files, nm_numbers, notNmVars>>

\* The caller passes video_type to transcribe_audio_segments, which has no such
\* parameter (modal_app.py 1884).
passes_video_type(caller) == caller = "process_video_background"

\* The call of transcribe_audio_segments: one record for each audio file of the
\* output directory, in sorted name order (written to transcriptions.json as
\* well).  process_video_from_s3 and process_youtube_video go on to
\* create_segment_json with the records, script_trimmer.py to its own
\* create_segment_json.  The call of process_video_background raises TypeError
\* before anything is listed, and the job ends failed: no record, no
\* chunk_number.
NmTranscribe ==
    /\ nm_pc = "transcribe"
    /\ IF passes_video_type(nm_caller)
       THEN /\ nm_pc' = "raised"
            /\ UNCHANGED nm_files
       ELSE /\ nm_files' = ListAudioFiles(nm_output)
            /\ nm_pc' = IF nm_caller = "script_trimmer" THEN "step4" ELSE "number"
    /\ UNCHANGED <<nm_caller, nm_stem, nm_chunks, nm_audio, nm_output, nm_numbers, notNmVars>>

\* create_segment_json of script_trimmer.py (114-130): it hands
\* transcribe_segments.create_segment_json records with "filename" and "path"
\* only, audio_file["segments"] raises KeyError and run_pipeline ends at step 4:
\* no chunk_number is computed.
NmStep4 ==
    /\ nm_pc = "step4"
    /\ nm_pc' = "failed"
    /\ UNCHANGED <<nm_caller, nm_stem, nm_chunks, nm_audio, nm_output, nm_files, nm_numbers, notNmVars>>

\* python transcribe_segments.py in the directory the pipeline left
\* (transcribe_segments.py 507-511): transcribe_audio_segments() returns the
\* records of transcriptions.json and create_segment_json gets them.
NmMain ==
    /\ nm_pc = "failed"
    /\ nm_pc' = "number"
    /\ UNCHANGED <<nm_caller, nm_stem, nm_chunks, nm_audio, nm_output, nm_files, nm_numbers, notNmVars>>

\* create_segment_json, lines 362-369, on the transcribed files in order.
NmNumber ==
    /\ nm_pc = "number"
    /\ nm_numbers' = [k \in 1..Len(nm_files) |-> ChunkNumberOf(nm_files[k])]
    /\ nm_pc' = "numbered"
    /\ UNCHANGED <<nm_caller, nm_stem, nm_chunks, nm_audio, nm_output, nm_files, notNmVars>>

InitNaming == InitNmVars /\ IdleSegVars /\ IdleChunkVars /\ IdleJobVars /\ IdleCutVars
                 /\ IdleYtVars /\ IdleSanVars /\ IdleTrVars /\ IdleUpVars
                 /\ IdleStVars /\ IdleCjVars /\ IdleMdVars /\ IdleExVars /\ IdleMuVars /\ IdleLaVars
NextNaming == NmExtractAudio \/ NmChunk \/ NmTranscribe \/ NmStep4 \/ NmMain \/ NmNumber
SpecNaming == InitNaming /\ [][NextNaming]_vars

\* The file of the numbered list at position i is the k-th chunk the chunker wrote.
IsChunkFile(i, k) ==
    nm_files[i] = chunk_filename(k, audio_stem(nm_caller, nm_stem))

\* C32: the k-th chunk file the chunker produced gets chunk_number k, and an
\* audio file that was not chunked gets chunk_number 1 (global offset 0),
\* whatever the name of the source file.
C32_ChunkNumberFollowsChunking ==
    nm_pc = "numbered" =>
        /\ \A i \in 1..Len(nm_files) : \A k \in 1..nm_chunks :
               IsChunkFile(i, k) => nm_numbers[i] = k
        /\ nm_chunks = 0 =>
               /\ nm_numbers = <<1>>
               /\ global_start_offset(nm_numbers[1], NOMINAL_CHUNK_SECONDS) = 0

\* What holds: chunk files are numbered as the chunker numbered them, and an
\* unchunked file named after a uuid gets chunk_number 1.
ChunkNumberFollowsChunkFileName ==
    nm_pc = "numbered" =>
        /\ \A i \in 1..Len(nm_files) : \A k \in 1..nm_chunks :
               IsChunkFile(i, k) => nm_numbers[i] = k
        /\ (nm_chunks = 0 /\ nm_caller # "script_trimmer") => nm_numbers = <<1>>

\* run_pipeline of script_trimmer.py and process_video_background compute no
\* chunk_number.
PipelineFailsBeforeNumbering ==
    /\ (nm_caller = "script_trimmer" /\ nm_pc \in {"step4", "failed"}) => nm_numbers = <<>>
    /\ passes_video_type(nm_caller) => (nm_pc # "numbered" /\ nm_numbers = <<>>)

\* ---------------------------------------------------------------------------
\* Further properties of process_video_background
\* ---------------------------------------------------------------------------

\* The run acquired the video, extracted the audio and got its chunk files.
StagesBeforeTranscriptionSucceeded ==
    /\ video_path /= None
    /\ returncode = 0
    /\ job_chunk_files /= <<>>

\* C33: a run whose download, audio extraction and chunking succeeded (and
\* whose transcription and analysis capabilities answer) ends with a
\* completed update of progress 100 carrying the result, and issues no failed
\* update.
C33_SuccessfulJobEndsCompleted ==
    (pc = "done" /\ StagesBeforeTranscriptionSucceeded /\ checkpoint_file.state = "absent")
    => /\ \E u \in IssuedUpdates :
              u.status = "completed" /\ u.progress = 100 /\ "result" \in DOMAIN u
       /\ \A u \in IssuedUpdates : u.status /= "failed"

\* What holds: every run that gets to the transcription ends failed with the
\* TypeError of the call.
TranscriptionAlwaysFailsTheJob ==
    (pc = "done" /\ StagesBeforeTranscriptionSucceeded)
    => \E u \in IssuedUpdates : u.status = "failed" /\ u.error = TranscriptionError

HasProgress(u) == "progress" \in DOMAIN u

\* C34: in one run the progress values of the published updates never
\* decrease, lie within 0..100, and 100 is published only in the completed
\* update.
C34_ProgressNeverDecreases ==
    /\ \A i, j \in 1..Len(QueuedUpdates) :
           (i < j /\ HasProgress(QueuedUpdates[i]) /\ HasProgress(QueuedUpdates[j]))
               => QueuedUpdates[i].progress <= QueuedUpdates[j].progress
    /\ \A i \in 1..Len(QueuedUpdates) :
           HasProgress(QueuedUpdates[i]) =>
               /\ QueuedUpdates[i].progress \in 0..100
               /\ QueuedUpdates[i].progress = 100 => QueuedUpdates[i].status = "completed"

\* What holds: a run that finds no checkpoint of its own source publishes
\* non-decreasing progress values within 5..70.
ProgressNeverDecreasesWithoutCheckpoint ==
    ~CheckpointMatches =>
        \A i, j \in 1..Len(QueuedUpdates) :
            (i <= j /\ HasProgress(QueuedUpdates[i]) /\ HasProgress(QueuedUpdates[j]))
                => /\ QueuedUpdates[i].progress <= QueuedUpdates[j].progress
                   /\ QueuedUpdates[i].progress \in 5..70

\* ---------------------------------------------------------------------------
\* Successive jobs of one container: cleanup_previous_files, the cuts of
\* create_video_segments, the directory listing of
\* run_video_segment_extraction, and the upload.
\* ---------------------------------------------------------------------------

NumRuns == 2

\* The paths create_video_segments can write: video_segments/NN_title.mp4 and
\* video_segments/interactions/NN_type_title.mp4.
CutOrder ==
    <<[dir |-> OUTPUT_DIR, name |-> "01_Intro.mp4"],
      [dir |-> OUTPUT_DIR, name |-> "02_Recap.mp4"],
      [dir |-> INTERACTION_OUTPUT_DIR, name |-> "01_question_Why.mp4"]>>

\* The entries create_video_segments gets to before it is over: all of them, or
\* those before the entry whose title is null, where sanitize_filename raises
\* TypeError (raises_at is the position of that entry, 0 when there is none).
EntriesReached(raises_at) ==
    {CutOrder[k] : k \in 1..(IF raises_at = 0 THEN Len(CutOrder) ELSE raises_at - 1)}

DiskFile(path, job) == [dir |-> path.dir, name |-> path.name, job |-> job]

\* cleanup_previous_files, lines 670-682, on the files under video_segments:
\* the files directly in VIDEO_SEGMENTS_DIR (/data/video_segments) are
\* unlinked; the cuts are written to the relative path video_segments, which
\* is that directory only when the working directory is /data, and the files
\* of its interactions subdirectory are never touched.
cleanup_segments_dir(disk, cwd_is_data) ==
    IF cwd_is_data THEN {f \in disk : f.dir # OUTPUT_DIR} ELSE disk

\* The disk after the cuts of a job: ffmpeg -y overwrites a file of the same
\* path.
write_cuts(disk, paths, job) ==
    {f \in disk : [dir |-> f.dir, name |-> f.name] \notin paths}
        \cup {DiskFile(p, job) : p \in paths}

\* run_video_segment_extraction, lines 752-788: [] unless create_video_segments
\* returned True (it returned False, or it raised), else every video file
\* found in video_segments and in video_segments/interactions.
list_video_segments(disk, success) == IF success THEN disk ELSE {}

InitExVars ==
    /\ ex_pc = "cleanup"
    /\ ex_job = 1
    /\ ex_cwd_is_data \in BOOLEAN
    /\ ex_disk = {}
    /\ ex_success = FALSE
    /\ ex_all_segments = {}
    /\ ex_s3_urls = {}

\* cleanup_previous_files at the start of a job.
ExCleanup ==
    /\ ex_pc = "cleanup"
    /\ ex_disk' = cleanup_segments_dir(ex_disk, ex_cwd_is_data)
    /\ ex_pc' = "cut"
    /\ UNCHANGED <<ex_job, ex_cwd_is_data, ex_success, ex_all_segments, ex_s3_urls,
                   notExVars>>

\* create_video_segments as run_video_segment_extraction calls it: the entries
\* are cut in the order of the regular ones, then the interactions, and the
\* cuts that succeed write their files.  It returns True when at least one
\* did; when the title of an entry is null it raises TypeError at that entry,
\* the files written before stay, and the handler of
\* run_video_segment_extraction (lines 786-788) returns [].
ExCut ==
    /\ ex_pc = "cut"
    /\ \E raises_at \in 0..Len(CutOrder) :
       \E paths \in SUBSET EntriesReached(raises_at) :
           /\ ex_disk' = write_cuts(ex_disk, paths, ex_job)
           /\ ex_success' = (raises_at = 0 /\ paths # {})
    /\ ex_pc' = "list"
    /\ UNCHANGED <<ex_job, ex_cwd_is_data, ex_all_segments, ex_s3_urls, notExVars>>

\* run_video_segment_extraction after the cuts.
ExList ==
    /\ ex_pc = "list"
    /\ ex_all_segments' = list_video_segments(ex_disk, ex_success)
    /\ ex_pc' = "upload"
    /\ UNCHANGED <<ex_job, ex_cwd_is_data, ex_disk, ex_success, ex_s3_urls, notExVars>>

\* upload_video_segments_to_s3(all_segments): each upload succeeds or fails;
\* no local file is removed.
ExUpload ==
    /\ ex_pc = "upload"
    /\ \E uploaded \in SUBSET ex_all_segments : ex_s3_urls' = uploaded
    /\ ex_pc' = "returned"
    /\ UNCHANGED <<ex_job, ex_cwd_is_data, ex_disk, ex_success, ex_all_segments, notExVars>>

\* The next job in the same container.
ExNextJob ==
    /\ ex_pc = "returned"
    /\ ex_job < NumRuns
    /\ ex_job' = ex_job + 1
    /\ ex_pc' = "cleanup"
    /\ ex_success' = FALSE
    /\ ex_all_segments' = {}
    /\ ex_s3_urls' = {}
    /\ UNCHANGED <<ex_cwd_is_data, ex_disk, notExVars>>

InitRuns == InitExVars /\ IdleSegVars /\ IdleChunkVars /\ IdleJobVars /\ IdleCutVars
               /\ IdleYtVars /\ IdleSanVars /\ IdleTrVars /\ IdleUpVars
               /\ IdleStVars /\ IdleCjVars /\ IdleMdVars /\ IdleNmVars /\ IdleMuVars /\ IdleLaVars
NextRuns == ExCleanup \/ ExCut \/ ExList \/ ExUpload \/ ExNextJob
SpecRuns == InitRuns /\ [][NextRuns]_vars

\* C35: what a job reports (all_segments, split into video_segments and
\* interaction_segments) and uploads (s3_urls) are only files cut during its
\* own run, never a file an earlier job left in video_segments or in
\* video_segments/interactions.
C35_OnlyOwnCutsReported ==
    \A f \in ex_all_segments \cup ex_s3_urls : f.job = ex_job

\* What holds: a job reports the files it finds on disk when it has cut at
\* least one, and an earlier job's file in the interactions subdirectory is
\* still there whatever the working directory.
ReportsWhatIsOnDisk ==
    /\ ex_s3_urls \subseteq ex_all_segments
    /\ ex_pc \in {"upload", "returned"} =>
           ex_all_segments = (IF ex_success THEN ex_disk ELSE {})
    /\ \A f \in ex_disk : f.job <= ex_job

\* ---------------------------------------------------------------------------
\* Further properties of progress_stream_endpoint
\* ---------------------------------------------------------------------------

\* C36: a stream opened for one job never removes from the shared queue an
\* update published for another job: every item a stream has taken off the
\* queue carried the stream's own key (and was yielded by it).
C36_StreamTakesOnlyItsOwnUpdates ==
    \A d \in st_dropped : d.item[1] = hash_s3_url(st_url[d.stream])

\* What holds: an item a stream removed without yielding it is an update of
\* another job, and it is neither in the queue nor yielded by any stream.
ForeignUpdatesAreLost ==
    \A d \in st_dropped :
        /\ d.item[1] # hash_s3_url(st_url[d.stream])
        /\ ~InQueue(d.item[2])
        /\ \A s \in Streams : ~Yielded(s, d.item[2])

\* The position of an update in the sequence its job publishes.
PublicationIndex(update_data) ==
    CHOOSE n \in 1..Len(JobUpdates(update_data.s3_url)) :
        JobUpdates(update_data.s3_url)[n] = update_data

\* The terminal update of the job of stream s is on the queue.
TerminalPublishedFor(s) ==
    \E n \in 1..Len(st_queue) :
        /\ st_queue[n][1] = hash_s3_url(st_url[s])
        /\ ends_stream(st_queue[n][2])

\* What holds of a stream without any fairness: it yields updates of its job in
\* the order of their publication; it has ended only if the last update it
\* yielded is a terminal one, and once it has yielded a terminal update it is
\* suspended at that yield or has ended: it polls no more.
StreamYieldsInOrderAndEndsOnTerminal ==
    \A s \in Streams :
        /\ \A i, j \in 1..Len(st_out[s]) :
               i < j => PublicationIndex(st_out[s][i]) < PublicationIndex(st_out[s][j])
        /\ st_pc[s] = "ended"
               => (st_out[s] # <<>> /\ ends_stream(st_out[s][Len(st_out[s])]))
        /\ (st_out[s] # <<>> /\ ends_stream(st_out[s][Len(st_out[s])]))
               => st_pc[s] \in {"yielded", "ended"}

\* The server keeps driving every generator, and a get on a queue that holds
\* an item does not time out for ever.
FairSpecDelivery ==
    SpecStream /\ \A s \in Streams : WF_vars(StreamStep(s)) /\ SF_vars(StGet(s))

\* C37: a stream delivers the updates of its job in publication order, ends
\* exactly when it has delivered a completed or failed update of that job (it
\* ends only then, and then it does, at its next resumption), and whenever
\* the terminal update of its job is published while it is attached, it
\* eventually ends.
C37_StreamEndsAfterTerminalUpdate ==
    /\ []StreamYieldsInOrderAndEndsOnTerminal
    /\ \A s \in Streams :
           (st_out[s] # <<>> /\ ends_stream(st_out[s][Len(st_out[s])]))
               ~> (st_pc[s] = "ended")
    /\ \A s \in Streams : TerminalPublishedFor(s) ~> (st_pc[s] = "ended")

\* The first two parts of C37 hold: what fails is the third.
StreamEndsOnceItYieldedTerminal ==
    /\ []StreamYieldsInOrderAndEndsOnTerminal
    /\ \A s \in Streams :
           (st_out[s] # <<>> /\ ends_stream(st_out[s][Len(st_out[s])]))
               ~> (st_pc[s] = "ended")

\* ---------------------------------------------------------------------------
\* main.py: upload_video_segments_to_s3 and
\* cleanup_video_segments_after_s3_upload
\* ---------------------------------------------------------------------------

MaxMainUploadFiles == 3

SeqToSet(seq) == {seq[n] : n \in 1..Len(seq)}

\* Lines 161-166: the segments handed to the clean-up, given the argument and
\* s3_urls: all of video_segments when at least one upload succeeded.
segments_to_clean_up(n_segments, urls) ==
    IF urls # <<>> THEN 1..n_segments ELSE {}

InitMuVars ==
    /\ mu_pc = "start"
    /\ mu_on_disk \in UNION {[1..n -> BOOLEAN] : n \in 0..MaxMainUploadFiles}
    /\ mu_i = 1
    /\ mu_s3_urls = <<>>
    /\ mu_failed = {}
    /\ mu_deleted = {}

\* Lines 130-132: nothing to upload.
MuStart ==
    /\ mu_pc = "start"
    /\ mu_pc' = IF mu_on_disk = <<>> THEN "returned" ELSE "loop"
    /\ UNCHANGED <<mu_on_disk, mu_i, mu_s3_urls, mu_failed, mu_deleted, notMuVars>>

\* Lines 136-157: one segment; a missing file is passed over, upload_file_to_s3
\* returns a url or None.
MuOne ==
    /\ mu_pc = "loop"
    /\ mu_i <= Len(mu_on_disk)
    /\ IF ~mu_on_disk[mu_i]
       THEN UNCHANGED <<mu_s3_urls, mu_failed>>
       ELSE \E uploaded \in BOOLEAN :
                IF uploaded
                THEN /\ mu_s3_urls' = Append(mu_s3_urls, mu_i)
                     /\ UNCHANGED mu_failed
                ELSE /\ mu_failed' = mu_failed \cup {mu_i}
                     /\ UNCHANGED mu_s3_urls
    /\ mu_i' = mu_i + 1
    /\ mu_pc' = IF mu_i = Len(mu_on_disk) THEN "cleanup" ELSE "loop"
    /\ UNCHANGED <<mu_on_disk, mu_deleted, notMuVars>>

\* Lines 161-168 and cleanup_video_segments_after_s3_upload (101-124): every
\* file handed to the clean-up that exists is unlinked, unless its unlink
\* raises.
MuCleanupAndReturn ==
    /\ mu_pc = "cleanup"
    /\ \E kept \in SUBSET (1..Len(mu_on_disk)) :
         LET unlinked == {k \in segments_to_clean_up(Len(mu_on_disk), mu_s3_urls) :
                             mu_on_disk[k] /\ k \notin kept}
         IN  /\ kept \subseteq {k \in segments_to_clean_up(Len(mu_on_disk), mu_s3_urls) :
                                   mu_on_disk[k]}
             /\ mu_deleted' = unlinked
             /\ mu_on_disk' = [k \in 1..Len(mu_on_disk) |-> mu_on_disk[k] /\ k \notin unlinked]
    /\ mu_pc' = "returned"
    /\ UNCHANGED <<mu_i, mu_s3_urls, mu_failed, notMuVars>>

InitMainUpload == InitMuVars /\ IdleSegVars /\ IdleChunkVars /\ IdleJobVars /\ IdleCutVars
                     /\ IdleYtVars /\ IdleSanVars /\ IdleTrVars /\ IdleUpVars
                     /\ IdleStVars /\ IdleCjVars /\ IdleMdVars /\ IdleNmVars /\ IdleExVars /\ IdleLaVars
NextMainUpload == MuStart \/ MuOne \/ MuCleanupAndReturn
SpecMainUpload == InitMainUpload /\ [][NextMainUpload]_vars

\* C39: a local segment file is deleted only if the upload of that segment
\* succeeded: every segment whose upload failed is still on disk when the
\* function has returned.
C39_FailedUploadsStayOnDisk ==
    /\ mu_deleted \subseteq SeqToSet(mu_s3_urls)
    /\ mu_pc = "returned" => \A k \in mu_failed : mu_on_disk[k]

\* What holds: local files are deleted only when at least one upload succeeded,
\* and when none did every segment is still on disk.
NothingDeletedWhenNoUploadSucceeded ==
    /\ mu_deleted # {} => mu_s3_urls # <<>>
    /\ (mu_pc = "returned" /\ mu_s3_urls = <<>>) => \A k \in mu_failed : mu_on_disk[k]

\* ---------------------------------------------------------------------------
\* modal_app.py: extract_audio_endpoint and the thread it starts, which calls
\* process_video_background.remote (the call returns when the job has
\* returned, or raises).
\* ---------------------------------------------------------------------------

\* max_retries = 3 of extract_audio_endpoint
max_retries == 3

PendingUpdate(s3_url) ==
    [s3_url |-> s3_url, status |-> "pending",
     message |-> "Video processing job started successfully", progress |-> 0]
LaunchError == "remote call failed"
LaunchFailedUpdate(s3_url, e) ==
    [s3_url |-> s3_url, status |-> "failed",
     message |-> "Failed to start background processing after 3 attempts: " \o e,
     error |-> e]
UnboundLocalError ==
    "cannot access local variable 'retry_delay' where it is not associated with a value"

\* retry_delay inside start_background_processing: the function assigns it
\* (retry_delay *= 2, line 1700), so the name is local to it and the
\* retry_delay = 1 of the enclosing function (line 1682) is another variable.
\* The local is unbound when the function starts.
local_retry_delay_at_start == <<>>

\* The handler of a failed remote call, lines 1692-1700: what it does for the
\* given attempt and binding of retry_delay.
launch_except(attempt, retry_delay) ==
    IF attempt = max_retries - 1 THEN "send failed"
    ELSE IF retry_delay = <<>> THEN "UnboundLocalError"
    ELSE "sleep"

InitLaVars ==
    /\ la_pc = "endpoint"
    /\ la_attempt = 0
    /\ la_calls = 0
    /\ la_sleeps = 0
    /\ la_retry_delay = local_retry_delay_at_start
    /\ la_failed_sent = FALSE
    /\ la_exception = NoException

\* Lines 1660-1706: the pending update, the response, and the start of the
\* thread.
LaEndpoint ==
    /\ la_pc = "endpoint"
    /\ \E put_ok \in BOOLEAN :
         LET sent == send_progress_update(Channel, PendingUpdate(job_url), put_ok)
         IN  /\ progress_queue' = sent.queue
             /\ put_errors' = sent.errors
    /\ la_pc' = "call"
    /\ UNCHANGED <<pc, job_url, checkpoint_file, all_segments, video_path, returncode,
                   job_chunk_files, segments_json_file>>
    /\ UNCHANGED <<la_attempt, la_calls, la_sleeps, la_retry_delay, la_failed_sent,
                   la_exception, notJobLaVars>>

\* Line 1689: process_video_background.remote(request.s3_url, request.video_type)
LaCall ==
    /\ la_pc = "call"
    /\ la_attempt < max_retries
    /\ la_calls' = la_calls + 1
    /\ la_pc' = "remote"
    /\ pc' = "check_checkpoint"
    /\ UNCHANGED <<job_url, checkpoint_file, progress_queue, put_errors, all_segments,
                   video_path, returncode, job_chunk_files, segments_json_file>>
    /\ UNCHANGED <<la_attempt, la_sleeps, la_retry_delay, la_failed_sent, la_exception,
                   notJobLaVars>>

\* The job runs while the remote call is pending.
LaJobStep ==
    /\ la_pc = "remote"
    /\ NextJob

\* Lines 1690-1691: the job function has returned, the call returns, break.
LaRemoteReturns ==
    /\ la_pc = "remote"
    /\ pc = "done"
    /\ la_pc' = "returned"
    /\ UNCHANGED <<la_attempt, la_calls, la_sleeps, la_retry_delay, la_failed_sent,
                   la_exception, jobVars, notJobLaVars>>

\* Lines 1692-1700: the remote call raises (the function could not be started,
\* or the call was lost while the job ran).
LaRemoteRaises ==
    /\ la_pc = "remote"
    /\ LET handling == launch_except(la_attempt, la_retry_delay)
       IN  \/ /\ handling = "send failed"
              /\ \E put_ok \in BOOLEAN :
                   LET sent == send_progress_update(Channel,
                                   LaunchFailedUpdate(job_url, LaunchError), put_ok)
                   IN  /\ progress_queue' = sent.queue
                       /\ put_errors' = sent.errors
              /\ la_failed_sent' = TRUE
              /\ la_pc' = "returned"
              /\ UNCHANGED <<la_attempt, la_sleeps, la_retry_delay, la_exception>>
           \/ /\ handling = "UnboundLocalError"
              /\ la_exception' = UnboundLocalError
              /\ la_pc' = "raised"
              /\ UNCHANGED <<progress_queue, put_errors, la_attempt, la_sleeps,
                             la_retry_delay, la_failed_sent>>
           \/ /\ handling = "sleep"
              /\ la_sleeps' = la_sleeps + 1
              /\ la_retry_delay' = <<la_retry_delay[1] * 2>>
              /\ la_attempt' = la_attempt + 1
              /\ la_pc' = "call"
              /\ UNCHANGED <<progress_queue, put_errors, la_failed_sent, la_exception>>
    /\ UNCHANGED <<pc, job_url, checkpoint_file, all_segments, video_path, returncode,
                   job_chunk_files, segments_json_file, la_calls, notJobLaVars>>

InitLaunch == InitLaVars /\ InitJobVars /\ IdleSegVars /\ IdleChunkVars /\ IdleCutVars
                 /\ IdleYtVars /\ IdleSanVars /\ IdleTrVars /\ IdleUpVars
                 /\ IdleStVars /\ IdleCjVars /\ IdleMdVars /\ IdleNmVars /\ IdleExVars
                 /\ IdleMuVars
NextLaunch == LaEndpoint \/ LaCall \/ LaJobStep \/ LaRemoteReturns \/ LaRemoteRaises
SpecLaunch == InitLaunch /\ [][NextLaunch]_vars

LaunchEnded == la_pc \in {"returned", "raised"}
LaunchSucceeded == la_pc = "returned" /\ ~la_failed_sent

\* C38: when every launch attempt fails, the launcher makes exactly
\* max_retries (3) attempts, waiting between them, and then publishes a failed
\* update for the job; when an attempt succeeds no further attempt is made.
C38_LauncherRetriesThenReportsFailure ==
    LaunchEnded =>
        IF LaunchSucceeded
        THEN la_calls <= max_retries
        ELSE /\ la_calls = max_retries
             /\ la_sleeps = max_retries - 1
             /\ la_failed_sent

\* What holds: the remote call is made at most once; when it raises, the
\* thread dies of UnboundLocalError without waiting, without another attempt
\* and without a failed update.
LauncherNeverRetries ==
    /\ la_calls <= 1
    /\ la_sleeps = 0
    /\ ~la_failed_sent
    /\ LaunchEnded => (LaunchSucceeded \/ la_exception = UnboundLocalError)

====
